---- MODULE Spec2Model ----
(***************************************************************************)
(* CraftConnect: the eco-impact estimator (backend/estimator.py), the      *)
(* /predict handler (backend/app.py), the rule-based auto-tagger           *)
(* (ml/auto_tagging.py) and its API wrapper (ml/api.py).                   *)
(*                                                                         *)
(* Numbers.  The code computes in binary floating point; the model         *)
(* computes the same expressions exactly, in scaled integers:              *)
(*   CO2 quantities        in 1e-5 kg   (results in 1e-2 kg after round)   *)
(*   sustainability score  in 1e-3 pt   (results in 1e-1 pt after round)   *)
(*   tagger eco score      in 1e-2                                         *)
(* round(x, n) is to the nearest unit; see round below for the ties.       *)
(***************************************************************************)
EXTENDS Integers, Sequences, FiniteSets, TLC

VARIABLES
    est_arg,        \* the argument of the call of estimate_eco_impact
    est,            \* what that call returned or raised; None before the call
    gemini_service, \* backend/app.py: whether GeminiChatbotService() was built
    request,        \* a POST /predict request: [json |-> its body]
    http,           \* the response to it; None before it is served
    hashseed,       \* the string hash seed of the Python process
    items,          \* the CraftItems passed to AutoTagger.tag_item, in call order
    taggings,       \* the TaggingResults returned so far, in call order
    clock,          \* the wall clock datetime.now() reads
    api_calls,      \* the dicts passed to tag_craft_from_dict, in call order
    api_results,    \* the dicts it has returned so far, in call order
    category_factors,       \* backend/estimator.py: the module-level dict
    craft_categories,       \* AutoTagger: self.craft_categories
    sustainable_materials,  \* AutoTagger: self.sustainable_materials
    price_categories,       \* AutoTagger: self.price_categories
    est_calls,      \* the products of a series of estimate_eco_impact calls
    est_results,    \* what the calls made so far returned, in call order
    heap,           \* the products and items concurrent calls were given
    threads,        \* the concurrent calls: what each runs, on which object of
                    \* the heap, where it is, its locals and what it returned
    pricing,        \* the pricing engine: the keys of AdvancedPricingModel.models
                    \* and PricePredictionService's CATBOOST_AVAILABLE, is_loaded
    price_call,     \* a call to the pricing engine: the operation, its
                    \* arguments and what the regressors do during the call
    price_result,   \* <<>> before the call; << what it returned or raised >>
    otp_storage,    \* backend/app.py: the module-level dict, from a key to the
                    \* address in the heap of the dict stored under it
    twilio,         \* backend/app.py: whether twilio_client and
                    \* TWILIO_VERIFY_SID are set
    compared,       \* history: how many incorrect codes have been compared
                    \* with the OTP that concurrent requests verify
    files,          \* backend/local_data: what products.json, orders.json,
                    \* seller_stats.json and buyer_stats.json hold
    local_call,     \* a call of LocalStorageService: the method and its
                    \* arguments; None before the first call
    local_result    \* what the last call returned; None before the first

\* Python None, where the other values are dicts, lists or tuples.
None == <<>>

\* No field name / no exception type, where the other values are strings.
NoField == ""
NotRaised == ""

Max(a, b) == IF a >= b THEN a ELSE b
Min(a, b) == IF a <= b THEN a ELSE b

\* Python round(x, ndigits) of the float x whose exact value would be n / d, as
\* an integer number of units: the nearest one.  When n / d lies exactly
\* halfway between two units the float computed for it lies a little to one
\* side or the other, and the result is the unit on that side: tie is 0 when
\* the float falls below the halfway point and 1 when it falls at or above.
\* (n >= 0, d > 0.)
round(n, d, tie) ==
    LET q == n \div d
        r == n % d
    IN  IF 2 * r < d THEN q
        ELSE IF 2 * r > d THEN q + 1
        ELSE q + tie

\* The sides a computed float can fall on, one for each call of round.
Ties == {0, 1} \X {0, 1}

(***************************************************************************)
(* backend/estimator.py                                                    *)
(***************************************************************************)

\* The dict category_factors as the module defines it; factory and
\* handmade_mult in tenths (5.0 -> 50, 0.5 -> 5).
CategoryFactorsTable ==
    [ textiles   |-> [factory |-> 50, handmade_mult |-> 5],
      terracotta |-> [factory |-> 30, handmade_mult |-> 10],
      bamboo     |-> [factory |-> 25, handmade_mult |-> 8],
      toys       |-> [factory |-> 40, handmade_mult |-> 7],
      painting   |-> [factory |-> 15, handmade_mult |-> 5] ]

\* category_factors.get(category, {"factory": 3.0, "handmade_mult": 0.8})
BadDefaultFactors == [factory |-> 25, handmade_mult |-> 8]
DefaultFactors == [factory |-> 30, handmade_mult |-> 8]

factors_of(category) ==
    IF category \in DOMAIN category_factors
    THEN category_factors[category]
    ELSE DefaultFactors

\* {"handmade": handmade_mult, "small-batch": 0.7, "factory": 1.0}.get(method, 0.8)
\* in tenths.
production_multiplier(factors, method) ==
    CASE method = "handmade"    -> factors.handmade_mult
      [] method = "small-batch" -> 7
      [] method = "factory"     -> 10
      [] OTHER                  -> 8

method_bonus(method) ==
    CASE method = "handmade"    -> 35000
      [] method = "small-batch" -> 20000
      [] OTHER                  -> 0

\* The order in which estimate_eco_impact subscripts the product.
AccessOrder ==
    << "weight_g", "packaging_weight_g", "distance_km_to_market",
       "category", "production_method", "percent_recycled_material" >>

\* co2_saving before rounding, in 1e-5 kg.
UnclampedSaving(factory_co2, artisan_co2) == factory_co2 - artisan_co2
co2_saving_of(factory_co2, artisan_co2) == Max(factory_co2 - artisan_co2, 0)

\* sustainability_score before rounding, in 1e-3 points.
UncappedScore(s) == Max(0, s)
clamp_score(s) == Max(0, Min(s, 95000))

\* min(distance_km * 0.05, 25) and min((weight_kg + packaging_kg) * 8, 15), in
\* 1e-3 points; grams is weight_g + packaging_weight_g.
DistanceReward(distance_km) == 0 - Min(distance_km * 50, 25000)
distance_penalty(distance_km) == Min(distance_km * 50, 25000)

weight_penalty(grams) == Min(grams * 8, 15000)

\* estimate_eco_impact(product): the product is a dict, here a function whose
\* DOMAIN is the set of keys present.  A subscript of an absent key raises
\* KeyError.  The result is the pair (round(co2_saving, 2), round(score, 1)),
\* in 1e-2 kg and 1e-1 points; ties tells the two calls of round how the
\* floats they are given fall.
estimate_eco_impact(product, ties) ==
    IF \E i \in 1..Len(AccessOrder) : AccessOrder[i] \notin DOMAIN product
    THEN LET i == CHOOSE k \in 1..Len(AccessOrder) :
                     /\ AccessOrder[k] \notin DOMAIN product
                     /\ \A j \in 1..(k - 1) : AccessOrder[j] \in DOMAIN product
         IN  [raised |-> "KeyError", key |-> AccessOrder[i]]
    ELSE LET grams       == product["weight_g"] + product["packaging_weight_g"]
             distance_km == product["distance_km_to_market"]
             factors     == factors_of(product["category"])
             method      == product["production_method"]
             \* (weight_kg + packaging_kg) * factory, in 1e-5 kg
             base_material_impact == grams * factors.factory * 10
             \* 0.01 * distance_km
             transport_impact     == distance_km * 1000
             factory_co2 == base_material_impact + transport_impact
             artisan_co2 == grams * factors.factory
                                  * production_multiplier(factors, method)
                            + distance_km * 300
             co2_saving  == co2_saving_of(factory_co2, artisan_co2)
             base_sustainability == product["percent_recycled_material"] * 400
             sustainability_score ==
                 clamp_score(base_sustainability + method_bonus(method)
                             - distance_penalty(distance_km) - weight_penalty(grams))
         IN  [raised |-> NotRaised,
              co2_saving |-> round(co2_saving, 1000, ties[1]),
              sustainability_score |-> round(sustainability_score, 100, ties[2])]

\* The floats the two calls of round are given are computed from these
\* values alone: the operands of lines 19-33 for co2_saving, and the four
\* terms of line 52 for the score (a capped weight penalty is the float 15
\* whatever the weights).
rounded_floats(product) ==
    LET grams   == product["weight_g"] + product["packaging_weight_g"]
        factors == factors_of(product["category"])
    IN  [co2_saving |->
             << product["weight_g"], product["packaging_weight_g"],
                product["distance_km_to_market"], factors.factory,
                production_multiplier(factors, product["production_method"]) >>,
         sustainability_score |->
             << product["percent_recycled_material"],
                method_bonus(product["production_method"]),
                distance_penalty(product["distance_km_to_market"]),
                IF grams * 8 >= 15000 THEN <<15000>>
                ELSE << product["weight_g"], product["packaging_weight_g"] >> >>]

\* Floating-point arithmetic is deterministic: a call that gives round the
\* floats an earlier call gave it gets the result the earlier call got.
same_rounding(product, result, earlier, earlier_result) ==
    (\A i \in 1..Len(AccessOrder) :
         AccessOrder[i] \in DOMAIN product \cap DOMAIN earlier) =>
        \A x \in {"co2_saving", "sustainability_score"} :
            rounded_floats(product)[x] = rounded_floats(earlier)[x]
                => result[x] = earlier_result[x]

(***************************************************************************)
(* backend/app.py: POST /predict and POST /carbon_footprint                *)
(***************************************************************************)

required_fields ==
    << "weight_g", "packaging_weight_g", "distance_km_to_market",
       "category", "percent_recycled_material", "production_method" >>

\* The validation loop of predict(): the first required field the product
\* lacks, or NoField when it has them all.
NoMissingField(product) == NoField
first_missing_field(product) ==
    IF \E i \in 1..Len(required_fields) : required_fields[i] \notin DOMAIN product
    THEN LET i == CHOOSE k \in 1..Len(required_fields) :
                     /\ required_fields[k] \notin DOMAIN product
                     /\ \A j \in 1..(k - 1) : required_fields[j] \in DOMAIN product
         IN  required_fields[i]
    ELSE NoField

\* str(e) of the exception estimate_eco_impact raises.
exception_text(result) == "'" \o result.key \o "'"

\* predict(): request.json is the product (the body of the request, a JSON
\* object or null); gemini is the module-level gemini_service; ai is what
\* gemini_service.analyze_carbon_footprint does when it is called: it returns
\* recommendations ("ok") or raises ("raise").  The response is the status,
\* the JSON body, and whether estimate_eco_impact was called.
predict(product, gemini, ai, ties) ==
    IF product = None
    THEN \* `field not in None` raises TypeError, caught by the handler
         [status |-> 500,
          body |-> [error |-> "argument of type 'NoneType' is not iterable"],
          estimated |-> FALSE]
    ELSE LET missing == first_missing_field(product) IN
         IF missing # NoField
         THEN [status |-> 400,
               body |-> [error |-> "Missing required field: " \o missing],
               estimated |-> FALSE]
         ELSE LET r == estimate_eco_impact(product, ties) IN
              IF r.raised # NotRaised
              THEN [status |-> 500,
                    body |-> [error |-> exception_text(r)],
                    estimated |-> TRUE]
              ELSE LET response ==
                           [carbon_footprint |-> r.co2_saving,
                            sustainability_score |-> r.sustainability_score,
                            co2_saving_kg |-> r.co2_saving,
                            waste_reduction_pct |-> r.sustainability_score]
                       wants == /\ "include_recommendations" \in DOMAIN product
                                /\ product["include_recommendations"] = TRUE
                   IN  [status |-> 200,
                        body |-> IF gemini /\ wants /\ ai = "ok"
                                 THEN response @@
                                      [ai_recommendations |-> "recommendations"]
                                 ELSE response,
                        estimated |-> TRUE]

(***************************************************************************)
(* ml/auto_tagging.py                                                      *)
(*                                                                         *)
(* A CraftItem is a function from field names to values; a field that is   *)
(* None is left out of its domain.  A text is a string; text.lower() is    *)
(* the tuple of its characters, lowered.                                   *)
(***************************************************************************)

to_lower ==
    [A |-> "a", B |-> "b", C |-> "c", D |-> "d", E |-> "e", F |-> "f", G |-> "g",
     H |-> "h", I |-> "i", J |-> "j", K |-> "k", L |-> "l", M |-> "m", N |-> "n",
     O |-> "o", P |-> "p", Q |-> "q", R |-> "r", S |-> "s", T |-> "t", U |-> "u",
     V |-> "v", W |-> "w", X |-> "x", Y |-> "y", Z |-> "z"]

\* str.lower()
SameCase(s) == [i \in 1..Len(s) |-> SubSeq(s, i, i)]
lower(s) ==
    [i \in 1..Len(s) |->
        LET c == SubSeq(s, i, i)
        IN  IF c \in DOMAIN to_lower THEN to_lower[c] ELSE c]

\* `keyword in text`: the keyword occurs in the (lowered) text as a substring.
In(keyword, text) ==
    \E i \in 1..(Len(text) - Len(keyword) + 1) :
        \A j \in 1..Len(keyword) : text[i + j - 1] = SubSeq(keyword, j, j)

\* How an f-string renders a field: its text, or "None".
fstr(item, field) == IF field \in DOMAIN item THEN item[field] ELSE "None"

\* f"{item.title} {item.description}".lower()
item_text(item) == lower(fstr(item, "title") \o " " \o fstr(item, "description"))

\* The dicts AutoTagger.__init__ builds, as lists of entries in insertion
\* order.
CraftCategoriesTable ==
    << [category |-> "jewelry", keywords |->
          << "ring", "necklace", "bracelet", "earring", "pendant",
             "brooch", "anklet" >>],
       [category |-> "textiles", keywords |->
          << "scarf", "bag", "purse", "clothing", "fabric", "embroidery",
             "weaving", "knitting" >>],
       [category |-> "pottery", keywords |->
          << "vase", "bowl", "mug", "plate", "ceramic", "clay", "pottery" >>],
       [category |-> "woodwork", keywords |->
          << "furniture", "carving", "sculpture", "wooden", "timber",
             "oak", "pine" >>],
       [category |-> "metalwork", keywords |->
          << "steel", "iron", "copper", "bronze", "aluminum", "metal" >>],
       [category |-> "glasswork", keywords |->
          << "glass", "blown", "stained", "crystal", "mirror" >>],
       [category |-> "leather", keywords |->
          << "leather", "hide", "suede", "belt", "wallet", "boots" >>],
       [category |-> "fiber_arts", keywords |->
          << "yarn", "wool", "cotton", "silk", "hemp", "linen", "crochet" >>] >>

SustainableMaterialsTable ==
    << [category |-> "recycled", keywords |->
          << "recycled", "upcycled", "repurposed", "reclaimed" >>],
       [category |-> "organic", keywords |->
          << "organic", "natural", "eco-friendly", "biodegradable" >>],
       [category |-> "renewable", keywords |->
          << "bamboo", "cork", "hemp", "jute", "rattan" >>],
       [category |-> "local", keywords |->
          << "local", "locally sourced", "regional", "native" >>],
       [category |-> "fair_trade", keywords |->
          << "fair trade", "ethically sourced", "sustainable" >>],
       [category |-> "low_impact", keywords |->
          << "solar dried", "hand made", "minimal packaging",
             "carbon neutral" >>] >>

material_keywords ==
    << "wood", "metal", "glass", "ceramic", "clay", "leather", "fabric",
       "cotton", "wool", "silk", "linen", "hemp", "bamboo", "cork",
       "silver", "gold", "copper", "bronze", "steel", "iron",
       "plastic", "resin", "stone", "marble", "granite" >>

handmade_keywords == << "handmade", "hand made", "artisan", "crafted", "handcrafted" >>

\* float('inf'): above every price of the model.
inf == 2147483647

PriceCategoriesTable ==
    << [category |-> "budget",     min_price |-> 0,   max_price |-> 25],
       [category |-> "affordable", min_price |-> 25,  max_price |-> 75],
       [category |-> "mid_range",  min_price |-> 75,  max_price |-> 200],
       [category |-> "premium",    min_price |-> 200, max_price |-> 500],
       [category |-> "luxury",     min_price |-> 500, max_price |-> inf] >>

Range(s) == {s[i] : i \in 1..Len(s)}

RECURSIVE Flatten(_)
Flatten(ss) == IF ss = <<>> THEN <<>> ELSE Head(ss) \o Flatten(Tail(ss))

RECURSIVE SumSeq(_)
SumSeq(ns) == IF ns = <<>> THEN 0 ELSE Head(ns) + SumSeq(Tail(ns))

Reverse(s) == [i \in 1..Len(s) |-> s[Len(s) + 1 - i]]

\* list(set(xs)): the distinct elements of xs, in the order the set iterates,
\* which is fixed by the process's string hash seed.
RECURSIVE Enumerate(_)
Enumerate(S) ==
    IF S = {} THEN <<>>
    ELSE LET x == CHOOSE y \in S : TRUE IN <<x>> \o Enumerate(S \ {x})

list_of_set(xs, seed) ==
    IF seed = 0 THEN Enumerate(Range(xs)) ELSE Reverse(Enumerate(Range(xs)))

\* sum(1 for keyword in keywords if keyword in text)
AnyMatch(keywords, text) ==
    IF \E i \in 1..Len(keywords) : In(keywords[i], text) THEN 1 ELSE 0
matches(keywords, text) ==
    Cardinality({i \in 1..Len(keywords) : In(keywords[i], text)})

\* The keywords of the list that occur in the text, in list order.
Unfiltered(keywords, text) == keywords
FirstMatched(keywords, text) ==
    LET all == SelectSeq(keywords, LAMBDA k : In(k, text))
    IN  IF all = <<>> THEN <<>> ELSE <<Head(all)>>
matched(keywords, text) == SelectSeq(keywords, LAMBDA k : In(k, text))

\* min(matches / len(keywords), 1.0), in units of 1/840 (840 is the least
\* common multiple of the lengths of the keyword lists: 5, 6, 7, 8).
confidence(n_matches, n_keywords) == Min((n_matches * 840) \div n_keywords, 840)

\* xs.sort(key=..., reverse=True): a stable sort, so equal keys keep the order
\* they had in xs.
sort_desc(xs, key(_)) ==
    LET n == Len(xs)
        rank(i) == Cardinality({j \in 1..n : key(xs[j]) > key(xs[i])})
                   + Cardinality({j \in 1..(i - 1) : key(xs[j]) = key(xs[i])}) + 1
    IN  [r \in 1..n |-> xs[CHOOSE i \in 1..n : rank(i) = r]]

\* AutoTagger.extract_categories: (detected_categories, confidence_scores).
extract_categories(item) ==
    LET text == item_text(item)
        hit  == SelectSeq(craft_categories, LAMBDA c : matches(c.keywords, text) > 0)
        confidence_scores ==
            [c \in {hit[i].category : i \in 1..Len(hit)} |->
                LET e == CHOOSE e \in Range(hit) : e.category = c
                IN  confidence(matches(e.keywords, text), Len(e.keywords))]
        detected_categories == [i \in 1..Len(hit) |-> hit[i].category]
    IN  << sort_desc(detected_categories, LAMBDA c : confidence_scores[c]),
           confidence_scores >>

\* AutoTagger.extract_materials
extract_materials(item, seed) ==
    LET text == item_text(item)
        found == matched(material_keywords, text)
        materials == IF "materials" \in DOMAIN item /\ item["materials"] # <<>>
                     THEN found \o item["materials"]
                     ELSE found
    IN  list_of_set(materials, seed)

\* The points one matched keyword of a sustainability category adds, in 1/100.
category_points(category) ==
    CASE category = "recycled"   -> 20
      [] category = "organic"    -> 15
      [] category = "renewable"  -> 15
      [] category = "local"      -> 10
      [] category = "fair_trade" -> 10
      [] category = "low_impact" -> 10
      [] OTHER                   -> 0

\* eco_score = min(base_score, 1.0), in 1/100.
UncappedEcoScore(base_score) == base_score
cap_eco_score(base_score) == Min(base_score, 100)

\* AutoTagger.calculate_eco_impact_score: (eco_score, sustainability_tags).
calculate_eco_impact_score(item, materials, seed) ==
    LET text == item_text(item)
        n    == Len(sustainable_materials)
        found == [i \in 1..n |-> matched(sustainable_materials[i].keywords, text)]
        added == [i \in 1..n |->
                    Len(found[i]) * category_points(sustainable_materials[i].category)]
        handmade == \E i \in 1..Len(handmade_keywords) : In(handmade_keywords[i], text)
        base_score == 30 + SumSeq(added) + (IF handmade THEN 10 ELSE 0)
        sustainability_tags ==
            Flatten(found) \o (IF handmade THEN <<"handmade">> ELSE <<>>)
    IN  << cap_eco_score(base_score), list_of_set(sustainability_tags, seed) >>

\* AutoTagger.categorize_price; price is <<>> for None, else <<the price>>.
\* A fractional price falls in the range of its integer part, the
\* breakpoints being integers.
RECURSIVE FirstRangeClosed(_, _)
FirstRangeClosed(price, ranges) ==
    IF ranges = <<>> THEN "luxury"
    ELSE IF Head(ranges).min_price <= price /\ price <= Head(ranges).max_price
         THEN Head(ranges).category
         ELSE FirstRangeClosed(price, Tail(ranges))

RECURSIVE first_range(_, _)
first_range(price, ranges) ==
    IF ranges = <<>> THEN "luxury"
    ELSE IF Head(ranges).min_price <= price /\ price < Head(ranges).max_price
         THEN Head(ranges).category
         ELSE first_range(price, Tail(ranges))

categorize_price(price) ==
    IF price = None THEN "unknown" ELSE first_range(price[1], price_categories)

\* len(text.split()): the number of maximal runs of non-blank characters.
word_count(text) ==
    Cardinality({i \in 1..Len(text) :
        /\ SubSeq(text, i, i) # " "
        /\ (i = 1 \/ SubSeq(text, i - 1, i - 1) = " ")})

\* item.price as categorize_price takes it.
price_of(item) == IF "price" \in DOMAIN item THEN <<item["price"]>> ELSE None

\* The TaggingResult tag_item compiles from what its steps returned: cats is
\* the pair extract_categories returned, eco the pair
\* calculate_eco_impact_score returned.
tagging_result(item, cats, materials, eco) ==
    LET category_confidence == cats[2]
        n_conf    == Cardinality(DOMAIN category_confidence)
    IN  [categories          |-> cats[1],
         materials           |-> materials,
         sustainability_tags |-> eco[2],
         eco_impact_score    |-> eco[1],
         price_category      |-> categorize_price(price_of(item)),
         extracted_features  |->
             [word_count     |-> IF "description" \in DOMAIN item
                                    /\ item["description"] # ""
                                 THEN word_count(item["description"]) ELSE 0,
              has_location   |-> "location" \in DOMAIN item,
              has_artisan    |-> "artisan" \in DOMAIN item,
              material_count |-> Len(materials)],
         confidence_scores   |->
             [categories |-> category_confidence,
              eco_impact |-> eco[1],
              \* sum(values) / len(values), as the pair (sum, len); 0.0 if empty
              overall    |-> IF n_conf = 0 THEN <<0, 1>>
                             ELSE << SumSeq([i \in 1..Len(cats[1]) |->
                                               category_confidence[cats[1][i]]]),
                                     n_conf >>]]

\* AutoTagger.tag_item
tag_item(item, seed) ==
    LET cats      == extract_categories(item)
        materials == extract_materials(item, seed)
        eco       == calculate_eco_impact_score(item, materials, seed)
    IN  tagging_result(item, cats, materials, eco)

\* What a call leaves in the objects it was given.  estimate_eco_impact reads
\* category_factors with .get and never assigns to it; extract_materials
\* extends its own list `materials`, not item.materials.
SetDefault(factors, product) ==
    IF "category" \in DOMAIN product /\ product["category"] \notin DOMAIN factors
    THEN factors @@ (product["category"] :> DefaultFactors)
    ELSE factors
category_factors_after(factors, product) == factors

ExtendsItemMaterials(item) ==
    IF "materials" \in DOMAIN item
    THEN [item EXCEPT !["materials"] =
             item["materials"] \o matched(material_keywords, item_text(item))]
    ELSE item
item_after_extract_materials(item) == item

(***************************************************************************)
(* ml/enhanced_features.py and ml/api.py                                   *)
(***************************************************************************)

unique_keywords ==
    << "one-of-a-kind", "unique", "custom", "personalized", "bespoke",
       "handmade", "artisan", "original", "exclusive", "limited" >>

technique_keywords ==
    << "hand-carved", "hand-painted", "hand-woven", "etched", "embossed",
       "stamped", "forged", "thrown", "blown", "cast" >>

\* EnhancedCraftAnalyzer.calculate_uniqueness_score, in tenths: 1 for each
\* unique keyword and 0.5 for each technique, over 5, at most 1.0.
calculate_uniqueness_score(title, description) ==
    LET text == lower(title \o " " \o description)
    IN  Min(10, 2 * matches(unique_keywords, text) + matches(technique_keywords, text))

\* EnhancedCraftAnalyzer.comprehensive_analysis: of its sections the model
\* keeps uniqueness_score and analysis_timestamp; now is what datetime.now()
\* returns during the call.
comprehensive_analysis(title, description, price, materials, now) ==
    [uniqueness_score   |-> calculate_uniqueness_score(title, description),
     analysis_timestamp |-> now]

\* dict.get(key, default)
get(d, key, default) == IF key \in DOMAIN d THEN d[key] ELSE default

\* CraftItem(title=item_data.get('title', ''), ...): the fields that are not
\* None.
craft_item(item_data) ==
    [f \in {"title", "description"}
           \cup (DOMAIN item_data \cap {"price", "artisan", "location", "materials"}) |->
        IF f \in {"title", "description"} THEN get(item_data, f, "") ELSE item_data[f]]

\* CraftConnectAPI.tag_craft_from_dict
StampedTagging(item_data, seed, now) ==
    LET result == tag_item(craft_item(item_data), seed)
        materials_list == IF "materials" \in DOMAIN item_data
                          THEN item_data["materials"]
                          ELSE result.materials
    IN  [categories |-> result.categories,
         materials |-> result.materials,
         sustainability_tags |-> result.sustainability_tags,
         eco_impact_score |-> result.eco_impact_score,
         price_category |-> result.price_category,
         extracted_features |-> result.extracted_features,
         confidence_scores |-> result.confidence_scores,
         tagged_at |-> now,
         enhanced_analysis |->
             comprehensive_analysis(get(item_data, "title", ""),
                                    get(item_data, "description", ""),
                                    price_of(item_data), materials_list, now)]

tag_craft_from_dict(item_data, seed, now) ==
    LET result == tag_item(craft_item(item_data), seed)
        materials_list == IF "materials" \in DOMAIN item_data
                          THEN item_data["materials"]
                          ELSE result.materials
    IN  [categories |-> result.categories,
         materials |-> result.materials,
         sustainability_tags |-> result.sustainability_tags,
         eco_impact_score |-> result.eco_impact_score,
         price_category |-> result.price_category,
         extracted_features |-> result.extracted_features,
         confidence_scores |-> result.confidence_scores,
         enhanced_analysis |->
             comprehensive_analysis(get(item_data, "title", ""),
                                    get(item_data, "description", ""),
                                    price_of(item_data), materials_list, now)]

(***************************************************************************)
(* backend/price_prediction_service.py and ml/advanced_models.py           *)
(*                                                                         *)
(* The values of a features map or a product_data dict carry their Python  *)
(* type: a str, a number, or None.  A key the dict lacks is left out of    *)
(* the domain.  Prices are in 1e-3 of the currency unit before rounding    *)
(* and in 1e-2 after round(x, 2).  The regressors are opaque: what a call  *)
(* of model.predict returns, or that it raises, is an input of the call.   *)
(***************************************************************************)

Str(s) == [str |-> s]
Num(n) == [num |-> n]
Null   == [null |-> TRUE]

is_str(v) == DOMAIN v = {"str"}
is_num(v) == DOMAIN v = {"num"}

\* What model.predict does: it returns a number or raises.
Raises(e) == [raises |-> e]
raises(outcome) == DOMAIN outcome = {"raises"}

\* The sides the floats of the three calls of round fall on.
Ties3 == {0, 1} \X {0, 1} \X {0, 1}

\* PricePredictionService._calculate_price_range(predicted_price, margin=0.1)
\* and test_model.price_range: (round(p * (1 - 0.1), 2), round(p * (1 + 0.1), 2)),
\* p in 1e-3, the results in 1e-2.
FlooredRange(predicted_price, ties) ==
    << (predicted_price * 9) \div 100, (predicted_price * 11) \div 100 >>
calculate_price_range(predicted_price, ties) ==
    << round(predicted_price * 9, 100, ties[2]),
       round(predicted_price * 11, 100, ties[3]) >>

\* PricePredictionService.predict_price(product_data): service is
\* [available |-> CATBOOST_AVAILABLE, is_loaded |-> self.is_loaded]; outcome
\* is what self.model.predict does in this call.  The features are read with
\* .get and a default, whatever the dict holds.
service_predict_price(service, product_data, outcome, ties) ==
    IF ~ service.is_loaded \/ ~ service.available THEN None
    ELSE IF raises(outcome) THEN None
    ELSE LET prediction == outcome.num
             range == calculate_price_range(prediction, ties)
         IN  [predicted_price |-> round(prediction, 10, ties[1]),
              price_range |-> [min |-> range[1], max |-> range[2]],
              confidence |-> "medium"]

\* get_price_suggestions: category_multipliers, in tenths.
category_multipliers ==
    [jewelry |-> 25, pottery |-> 20, textiles |-> 22, woodwork |-> 18,
     metalwork |-> 23, glass |-> 24]

\* category_multipliers.get(category, 2.0), category being a lowered text.
multiplier_of(category) ==
    IF \E k \in DOMAIN category_multipliers : lower(k) = category
    THEN category_multipliers[CHOOSE k \in DOMAIN category_multipliers :
                                  lower(k) = category]
    ELSE 20

\* PricePredictionService.get_price_suggestions(base_price, product_data):
\* base_price is a number, in 1e-2; hours_of_labor is in hours.  The result
\* is the dict returned, or the exception that escapes.  The three ties are
\* used for the price, the min and the max of every suggestion.
get_price_suggestions(service, base_price, product_data, outcome, ties) ==
    LET ml_prediction == service_predict_price(service, product_data, outcome, ties)
        ml == IF ml_prediction # None
              THEN << [type |-> "ml_prediction",
                       price |-> ml_prediction.predicted_price,
                       range |-> ml_prediction.price_range,
                       confidence |-> ml_prediction.confidence] >>
              ELSE <<>>
        category_value == get(product_data, "category", Str(""))
        labor_hours    == get(product_data, "hours_of_labor", Num(0))
    IN  IF ~ is_str(category_value)
        THEN [raised |-> "AttributeError"]     \* None has no .lower()
        ELSE IF ~ is_num(labor_hours)
        THEN [raised |-> "TypeError"]          \* None > 0
        ELSE
        LET category == lower(category_value.str)
            \* 15 * labor_hours + base_price * 1.3, in 1e-3
            labor_based_price == 15000 * labor_hours.num + 13 * base_price
            labor == IF labor_hours.num > 0
                     THEN << [type |-> "labor_based",
                              price |-> round(labor_based_price, 10, ties[1]),
                              range |->
                                [min |-> round(labor_based_price * 9, 100, ties[2]),
                                 max |-> round(labor_based_price * 11, 100, ties[3])],
                              confidence |-> "high"] >>
                     ELSE <<>>
            multiplier == multiplier_of(category)
            \* base_price * multiplier, in 1e-3
            category_price == base_price * multiplier
            by_category ==
                << [type |-> "category_based",
                    price |-> round(category_price, 10, ties[1]),
                    range |->
                      [min |-> round(category_price * 85, 1000, ties[2]),
                       max |-> round(category_price * 115, 1000, ties[3])],
                    confidence |-> "medium"] >>
        IN  [raised |-> NotRaised,
             base_price |-> base_price,
             suggestions |-> ml \o labor \o by_category]

\* AdvancedPricingModel.fallback_pricing: craft_multipliers, in insertion
\* order, the multipliers in tenths.
craft_multipliers ==
    << [craft |-> "painting", mult |-> 15], [craft |-> "textile", mult |-> 12],
       [craft |-> "sculpture", mult |-> 20], [craft |-> "pottery", mult |-> 8],
       [craft |-> "jewelry", mult |-> 18], [craft |-> "woodwork", mult |-> 13] >>

\* AdvancedPricingModel.fallback_pricing(features): 1000 * multiplier *
\* (1 + sustainability_score * 0.3), in 1e-3; sustainability_score in 1e-2.
\* craft_type.lower() raises AttributeError when craft_type is not a str, and
\* the product raises TypeError when sustainability_score is not a number.
fallback_pricing(features) ==
    LET craft_type == get(features, "craft_type", Str(""))
        score      == get(features, "sustainability_score", Num(50))
    IN  IF ~ is_str(craft_type) THEN [raised |-> "AttributeError"]
        ELSE IF ~ is_num(score) THEN [raised |-> "TypeError"]
        ELSE LET text == lower(craft_type.str)
                 hits == SelectSeq(craft_multipliers, LAMBDA c : In(c.craft, text))
                 multiplier == IF hits = <<>> THEN 10 ELSE Head(hits).mult
             IN  [raised |-> NotRaised,
                  price |-> 100 * multiplier * (1000 + 3 * score.num)]

\* The features encode_features writes into the float array.
numeric_features ==
    { "material_quality", "artisan_experience", "size_factor",
      "sustainability_score", "complexity_score", "market_demand" }

\* AdvancedPricingModel.encode_features: whether it raises.  Storing a str
\* that is not a number in the float array raises ValueError.
encode_features_raises(features) ==
    \E f \in numeric_features \cap DOMAIN features : is_str(features[f])

\* A confidence is a fraction <<numerator, denominator>>, denominator > 0.
Leq(x, y) == x[1] * y[2] <= y[1] * x[2]

\* min(0.95, max(0.6, 1.0 - np.std(values) / np.mean(values))) for the one or
\* two predictions.  sum is the sum of the predictions and spread the
\* absolute difference of the two (0 for one), so that std / mean is
\* spread / sum.  With sum = 0 the quotient is nan or inf, max(0.6, .) is
\* 0.6; with sum < 0 the quotient is <= 0 and the result 0.95.
ensemble_confidence(sum, spread) ==
    IF sum = 0 THEN <<6, 10>>
    ELSE IF sum < 0 THEN <<95, 100>>
    ELSE LET c == <<sum - spread, sum>>
         IN  IF Leq(c, <<6, 10>>) THEN <<6, 10>>
             ELSE IF Leq(<<95, 100>>, c) THEN <<95, 100>>
             ELSE c

\* The confidence of the result the except branch returns.
failure_confidence == <<3, 10>>

\* AdvancedPricingModel.predict_price(features): models is the set of keys of
\* self.models; outcomes says, for each model, what its predict does in this
\* call (a number in 1e-3, or it raises).  The result is the dict returned,
\* or the exception that escapes.
predict_price(models, features, outcomes) ==
    LET loaded == SelectSeq(<<"xgboost", "random_forest">>, LAMBDA m : m \in models)
        failed == \/ encode_features_raises(features)
                  \/ \E i \in 1..Len(loaded) : raises(outcomes[loaded[i]])
        fallback == fallback_pricing(features)
    IN  IF failed \/ (loaded = <<>> /\ fallback.raised # NotRaised)
        THEN \* except Exception as e
             IF fallback.raised # NotRaised THEN [raised |-> fallback.raised]
             ELSE [raised |-> NotRaised,
                   predicted_price |-> <<fallback.price, 1>>,
                   confidence |-> failure_confidence,
                   error |-> TRUE]
        ELSE IF loaded # <<>>
        THEN LET values == [i \in 1..Len(loaded) |-> outcomes[loaded[i]].num]
                 sum    == SumSeq(values)
                 spread == IF Len(values) = 2
                           THEN IF values[1] >= values[2] THEN values[1] - values[2]
                                ELSE values[2] - values[1]
                           ELSE 0
                 \* np.mean, as the pair (sum, count)
                 final_price == <<sum, Len(values)>>
             IN  [raised |-> NotRaised,
                  predicted_price |-> final_price,
                  confidence |-> ensemble_confidence(sum, spread),
                  price_range |-> [min |-> <<sum * 8, Len(values) * 10>>,
                                   max |-> <<sum * 12, Len(values) * 10>>],
                  individual_predictions |-> [i \in 1..Len(loaded) |->
                      [model |-> loaded[i], prediction |-> values[i]]]]
        ELSE [raised |-> NotRaised,
              predicted_price |-> <<fallback.price, 1>>,
              confidence |-> <<5, 10>>,
              price_range |-> [min |-> <<fallback.price * 8, 10>>,
                               max |-> <<fallback.price * 12, 10>>],
              individual_predictions |-> <<>>]

\* SustainabilityAnalyzer.analyze_sustainability(product_data): it lowers
\* product_data.get('description', ''), which raises AttributeError when the
\* description is not a str; overall_score is the score it computes
\* otherwise, in 1e-2.
analyze_sustainability(product_data, overall_score) ==
    IF ~ is_str(get(product_data, "description", Str("")))
    THEN [raised |-> "AttributeError"]
    ELSE [raised |-> NotRaised, overall_sustainability_score |-> overall_score]

\* The features comprehensive_analysis passes to predict_price; the region is
\* left out, fallback_pricing and the model do not read it.
pricing_features(product_data, sustainability_score) ==
    [craft_type |-> get(product_data, "category", Str("unknown")),
     material_quality |-> Num(80),
     sustainability_score |-> Num(sustainability_score),
     complexity_score |-> Num(60)]

\* AdvancedCraftAnalyzer.comprehensive_analysis(product_data), without an
\* image: outcomes[1] and outcomes[2] are what the models do in the first and
\* the second call of predict_price, overall_score what analyze_sustainability
\* computes, now what pd.Timestamp.now() returns.  The result is the dict
\* returned, or the exception that escapes.
advanced_comprehensive_analysis(models, product_data, outcomes, overall_score, now) ==
    IF ~ is_str(get(product_data, "location", Str("")))
    THEN [raised |-> "AttributeError"]     \* None has no .split()
    ELSE
    LET first == predict_price(models, pricing_features(product_data, 70), outcomes[1])
        sustainability == analyze_sustainability(product_data, overall_score)
        second == predict_price(models, pricing_features(product_data, overall_score),
                                outcomes[2])
    IN  IF first.raised # NotRaised THEN [raised |-> first.raised]
        ELSE IF sustainability.raised # NotRaised
        THEN [raised |-> sustainability.raised]
        ELSE IF overall_score > 0 /\ second.raised # NotRaised
        THEN [raised |-> second.raised]
        ELSE [raised |-> NotRaised,
              timestamp |-> now,
              analysis_version |-> "advanced_v1.0",
              pricing_analysis |-> IF overall_score > 0 THEN second ELSE first,
              sustainability_analysis |-> sustainability]

(***************************************************************************)
(* backend/app.py: the OTP routes                                          *)
(*                                                                         *)
(* otp_storage maps a key to a dict {'otp', 'expires_at', 'attempts'}.     *)
(* The dicts are objects of the heap: otp_storage holds their addresses,   *)
(* and so does the local stored_data of a request being served.  Time is   *)
(* in minutes.  A JSON body is a function from its keys to strings, None   *)
(* when the request has no JSON body.                                      *)
(***************************************************************************)

\* timedelta(minutes=5)
OtpMinutes == 5

\* if stored_data['attempts'] >= 3
AttemptLimit == 3

Digits == {"0", "1", "2", "3", "4", "5", "6", "7", "8", "9"}

RECURSIVE join(_)
join(ss) == IF ss = <<>> THEN "" ELSE Head(ss) \o join(Tail(ss))

\* The characters of a str, in order.
chars(text) == [i \in 1..Len(text) |-> SubSeq(text, i, i)]

\* ''.join(filter(str.isdigit, phone))
digits_of(phone) == join(SelectSeq(chars(phone), LAMBDA c : c \in Digits))

startswith(s, prefix) ==
    Len(s) >= Len(prefix) /\ SubSeq(s, 1, Len(prefix)) = prefix

\* format_phone_number(phone)
format_phone_number(phone) ==
    LET d == digits_of(phone)
    IN  IF Len(d) = 10 THEN "+91" \o d
        ELSE IF Len(d) = 12 /\ startswith(d, "91") THEN "+" \o d
        ELSE IF Len(d) = 13 /\ startswith(d, "91") THEN "+" \o SubSeq(d, 1, 12)
        ELSE IF Len(d) >= 10 THEN "+91" \o SubSeq(d, Len(d) - 9, Len(d))
        ELSE "+91" \o d

\* f"reset_{formatted_phone}"
reset_key_of(formatted_phone) == "reset_" \o formatted_phone

\* `not data.get(field)`: the field is missing or empty.
missing(json, field) == get(json, field, "") = ""

\* del d[key]
Kept(d, key) == d
deleted(d, key) == [k \in DOMAIN d \ {key} |-> d[k]]

\* d[key] = value
SetIfAbsent(d, key, value) ==
    [k \in DOMAIN d \cup {key} |-> IF k \in DOMAIN d THEN d[k] ELSE value]
assigned(d, key, value) == [k \in DOMAIN d \cup {key} |-> IF k = key THEN value ELSE d[k]]

\* The heap after the objects nothing refers to are freed: referenced is the
\* set of addresses held by otp_storage and by the locals of the requests
\* being served.  A freed cell is None; trailing freed cells are dropped.
RECURSIVE trimmed(_)
trimmed(h) ==
    IF h # <<>> /\ h[Len(h)] = None THEN trimmed(SubSeq(h, 1, Len(h) - 1)) ELSE h

collected(h, referenced) ==
    trimmed([a \in 1..Len(h) |-> IF a \in referenced THEN h[a] ELSE None])

addresses(storage) == {storage[k] : k \in DOMAIN storage}

\* A new object in the heap: the first free address.
allocate(h) ==
    IF \E a \in 1..Len(h) : h[a] = None
    THEN CHOOSE a \in 1..Len(h) : h[a] = None /\ \A b \in 1..(a - 1) : h[b] # None
    ELSE Len(h) + 1

placed(h, a, object) ==
    IF a = Len(h) + 1 THEN Append(h, object) ELSE [h EXCEPT ![a] = object]

\* clean_expired_otps(), served alone: the keys whose dict has expired.
expired_keys(storage, h, now) ==
    { k \in DOMAIN storage : now > h[storage[k]].expires_at }

NothingExpires(storage, h, now) == storage
clean_expired_otps(storage, h, now) ==
    [k \in DOMAIN storage \ expired_keys(storage, h, now) |-> storage[k]]

\* What the handlers return: the response, and otp_storage and the heap as
\* the request leaves them.
Served(storage, h, status, body) ==
    [otp_storage |-> storage,
     heap |-> collected(h, addresses(storage)),
     response |-> [status |-> status, body |-> body]]

\* The test of the except branch: the Twilio error is an unverified number,
\* a rate limit or a blocked number, and the OTP is given in the response.
twilio_fallback(error) ==
    \/ In("unverified", lower(error))
    \/ In("21608", chars(error))
    \/ In("max send attempts", lower(error))
    \/ In("60203", chars(error))
    \/ In("fraudulent", lower(error))
    \/ In("60410", chars(error))

fallback_reason(error) ==
    IF In("max send attempts", lower(error)) THEN "Rate Limited"
    ELSE IF In("fraudulent", lower(error)) THEN "Number Blocked"
    ELSE "Unverified Number"

\* Lines 172-233 and 274-335: the response of a request that has stored its
\* OTP.  outcome is "sent" when verifications.create returns, and the text
\* of the exception it raises otherwise; what names the OTP in the messages
\* ("OTP" or "password reset OTP"); configured is `twilio_client and
\* TWILIO_VERIFY_SID` and development `os.getenv('FLASK_ENV') == 'development'`.
delivery_response(configured, development, outcome, formatted_phone, otp_code, what) ==
    LET sent_to == (IF what = "OTP" THEN "OTP" ELSE "Password reset OTP")
                   \o " sent to " \o formatted_phone
    IN
    IF configured
    THEN IF outcome = "sent"
         THEN [status |-> 200,
               body |-> IF development
                        THEN [success |-> TRUE,
                              message |-> "4-digit " \o what \o " sent to "
                                          \o formatted_phone
                                          \o " (Dev Mode - SMS + DevOTP)",
                              expires_in |-> 300,
                              dev_otp |-> otp_code,
                              dev_mode |-> TRUE]
                        ELSE [success |-> TRUE,
                              message |-> "4-digit " \o what \o " sent to "
                                          \o formatted_phone,
                              expires_in |-> 300]]
         ELSE IF twilio_fallback(outcome)
         THEN [status |-> 200,
               body |-> [success |-> TRUE,
                         message |-> sent_to \o " (Dev Mode - "
                                     \o fallback_reason(outcome) \o ")",
                         dev_otp |-> otp_code,
                         expires_in |-> 300,
                         dev_mode |-> TRUE]]
         ELSE [status |-> 500,
               body |-> [error |-> "Failed to send " \o what,
                         details |-> outcome]]
    ELSE [status |-> 200,
          body |-> [success |-> TRUE,
                    message |-> sent_to,
                    dev_otp |-> otp_code,
                    expires_in |-> 300]]

NoneHasNoGet == "'NoneType' object has no attribute 'get'"

\* What send_otp and send_reset_password_otp store.
stored_and_answered(storage, h, key, entry, response) ==
    LET stored == placed(h, allocate(h), entry)
    IN  Served(assigned(storage, key, allocate(h)), stored,
               response.status, response.body)

\* POST /send-otp: json is the body, now what datetime.now() returns,
\* otp_code what generate_otp() returns.
send_otp(storage, h, json, now, otp_code, configured, development, outcome) ==
    IF json = None
    THEN Served(storage, h, 500, [error |-> NoneHasNoGet])
    ELSE IF missing(json, "phone")
    THEN Served(storage, h, 400, [error |-> "Phone number is required"])
    ELSE LET cleaned == clean_expired_otps(storage, h, now)
             formatted_phone == format_phone_number(json["phone"])
         IN  stored_and_answered(cleaned, collected(h, addresses(cleaned)),
                 formatted_phone,
                 [otp |-> otp_code, expires_at |-> now + OtpMinutes, attempts |-> 0],
                 delivery_response(configured, development, outcome, formatted_phone,
                                   otp_code, "OTP"))

\* POST /reset-password-otp
send_reset_password_otp(storage, h, json, now, otp_code, configured, development, outcome) ==
    IF json = None
    THEN Served(storage, h, 500, [error |-> NoneHasNoGet])
    ELSE IF missing(json, "phone") \/ missing(json, "user_type")
    THEN Served(storage, h, 400,
                [error |-> "Phone number and user type are required"])
    ELSE IF json["user_type"] \notin {"buyer", "seller"}
    THEN Served(storage, h, 400, [error |-> "Invalid user type"])
    ELSE LET cleaned == clean_expired_otps(storage, h, now)
             formatted_phone == format_phone_number(json["phone"])
         IN  stored_and_answered(cleaned, collected(h, addresses(cleaned)),
                 reset_key_of(formatted_phone),
                 [otp |-> otp_code, expires_at |-> now + OtpMinutes, attempts |-> 0,
                  user_type |-> json["user_type"]],
                 delivery_response(configured, development, outcome, formatted_phone,
                                   otp_code, "password reset OTP"))

\* stored_data['attempts'] += 1
Uncounted(h, stored_data) == h
counted(h, stored_data) == [h EXCEPT ![stored_data].attempts = @ + 1]

\* Lines 364-397 and 420-451: the OTP is looked up under key and compared.
\* texts are the four messages of the route; found is what a success adds
\* to its body.
checked(storage, h, key, otp_code, texts, found) ==
    IF key \notin DOMAIN storage
    THEN Served(storage, h, 400, [success |-> FALSE, error |-> texts.missing])
    ELSE LET stored_data == storage[key]
         IN  IF h[stored_data].attempts >= AttemptLimit
             THEN Served(deleted(storage, key), h, 400,
                         [success |-> FALSE, error |-> texts.limit])
             ELSE IF h[stored_data].otp = otp_code
             THEN Served(deleted(storage, key), h, 200,
                         [success |-> TRUE, message |-> texts.verified] @@ found)
             ELSE Served(storage, counted(h, stored_data), 400,
                         [success |-> FALSE, error |-> texts.invalid,
                          attempts_remaining |->
                              3 - counted(h, stored_data)[stored_data].attempts])

verify_texts ==
    [missing  |-> "OTP not found or expired",
     limit    |-> "Too many failed attempts. Please request a new OTP.",
     verified |-> "OTP verified successfully",
     invalid  |-> "Invalid OTP"]

reset_texts ==
    [missing  |-> "Password reset OTP not found or expired",
     limit    |-> "Too many failed attempts. Please request a new password reset OTP.",
     verified |-> "OTP verified. Password can now be reset.",
     invalid  |-> "Invalid password reset OTP"]

\* POST /verify-otp
verify_otp(storage, h, json, now) ==
    IF json = None
    THEN Served(storage, h, 500, [error |-> NoneHasNoGet])
    ELSE IF missing(json, "phone") \/ missing(json, "otp")
    THEN Served(storage, h, 400, [error |-> "Phone number and OTP are required"])
    ELSE LET cleaned == clean_expired_otps(storage, h, now)
         IN  checked(cleaned, collected(h, addresses(cleaned)),
                     format_phone_number(json["phone"]), json["otp"],
                     verify_texts, <<>>)

\* POST /reset-password
reset_password(storage, h, json, now) ==
    IF json = None
    THEN Served(storage, h, 500, [error |-> NoneHasNoGet])
    ELSE IF \/ missing(json, "phone") \/ missing(json, "otp")
            \/ missing(json, "new_password") \/ missing(json, "user_type")
    THEN Served(storage, h, 400,
                [error |-> "Phone, OTP, new password, and user type are required"])
    ELSE IF Len(json["new_password"]) < 6
    THEN Served(storage, h, 400,
                [error |-> "Password must be at least 6 characters long"])
    ELSE LET cleaned == clean_expired_otps(storage, h, now)
             formatted_phone == format_phone_number(json["phone"])
         IN  checked(cleaned, collected(h, addresses(cleaned)),
                     reset_key_of(formatted_phone), json["otp"], reset_texts,
                     [phone |-> formatted_phone, user_type |-> json["user_type"]])

(***************************************************************************)
(* backend/local_storage_service.py: LocalStorageService                   *)
(*                                                                         *)
(* A JSON file is the dict it holds.  products.json and orders.json map a  *)
(* uuid to a dict: they are the sequences of their values, in insertion    *)
(* order.  created_at is a time of the clock, and an amount a number of    *)
(* tenths (250.0 is 2500, 0.5 is 5).                                       *)
(***************************************************************************)

\* [p for p in product_list if p.get(key) == value]
filtered(product_list, key, value) ==
    SelectSeq(product_list, LAMBDA p : key \in DOMAIN p /\ p[key] = value)

\* product_list.sort(key=lambda x: x.get('created_at', ''), reverse=True):
\* the sort is stable, products of the same created_at keep their order.
RECURSIVE newest_first(_)
newest_first(product_list) ==
    IF product_list = <<>> THEN <<>>
    ELSE LET x == Head(product_list)
             rest == newest_first(Tail(product_list))
         IN  SelectSeq(rest, LAMBDA p : p["created_at"] > x["created_at"])
             \o <<x>>
             \o SelectSeq(rest, LAMBDA p : p["created_at"] <= x["created_at"])

\* product_list[:limit], for limit >= 0
first(product_list, limit) == SubSeq(product_list, 1, Min(limit, Len(product_list)))

\* get_products(filters, limit): filters is None or a dict.
get_products(products, filters, limit) ==
    LET given == IF filters = None THEN {} ELSE DOMAIN filters
        of_category == IF "category" \in given
                       THEN filtered(products, "category", filters["category"])
                       ELSE products
        of_seller == IF "seller_id" \in given
                     THEN filtered(of_category, "seller_id", filters["seller_id"])
                     ELSE of_category
        of_status == IF "status" \in given
                     THEN filtered(of_seller, "status", filters["status"])
                     ELSE filtered(of_seller, "status", "active")
    IN  first(newest_first(of_status), limit)

\* search_lower in product.get(field, '').lower()
field_match(search_lower, product, field) ==
    In(search_lower, lower(get(product, field, "")))

product_match(search_lower, product) ==
    \/ field_match(search_lower, product, "name")
    \/ field_match(search_lower, product, "description")
    \/ field_match(search_lower, product, "material")

\* The loop of search_products: the matching products are appended to
\* results, and the loop breaks when len(results) >= limit.
RECURSIVE search_loop(_, _, _, _)
search_loop(products, search_lower, limit, results) ==
    IF products = <<>> THEN results
    ELSE IF product_match(search_lower, Head(products))
    THEN LET appended == Append(results, Head(products))
         IN  IF Len(appended) >= limit THEN appended
             ELSE search_loop(Tail(products), search_lower, limit, appended)
    ELSE search_loop(Tail(products), search_lower, limit, results)

\* search_products(search_term, category, limit); category is "" when it
\* is not given.
search_products(products, search_term, category, limit) ==
    search_loop(get_products(products,
                             IF category # "" THEN [category |-> category] ELSE None,
                             limit * 2),
                join(lower(search_term)), limit, <<>>)

\* co2_saved = increment * 0.5
Co2Doubled(increment) == increment * 10
co2_saved(increment) == increment * 5

\* update_seller_stats(seller_id, stat_name, increment): seller_stats.json
\* after the call.
update_seller_stats(stats, seller_id, stat_name, increment, now) ==
    LET current_stats == get(stats, seller_id, <<>>)
        new_value == get(current_stats, stat_name, 0) + increment
        with_co2 ==
            IF stat_name = "total_sold"
            THEN assigned(current_stats, "total_co2_saved",
                          get(current_stats, "total_co2_saved", 0) + co2_saved(increment))
            ELSE current_stats
    IN  assigned(stats, seller_id,
                 assigned(assigned(with_co2, stat_name, new_value), "updated_at", now))

\* update_buyer_stats(buyer_id, stat_name, increment): buyer_stats.json
\* after the call.
update_buyer_stats(stats, buyer_id, stat_name, increment, now) ==
    LET current_stats == get(stats, buyer_id, <<>>)
        new_value == get(current_stats, stat_name, 0) + increment
    IN  assigned(stats, buyer_id,
                 assigned(assigned(current_stats, stat_name, new_value),
                          "updated_at", now))

\* order_data.update({...}): uuid is what uuid.uuid4() returns.
order_stored(order_data, uuid, now) ==
    [k \in DOMAIN order_data \cup {"id", "created_at", "updated_at", "status"} |->
        IF k = "id" THEN uuid
        ELSE IF k \in {"created_at", "updated_at"} THEN now
        ELSE IF k = "status" THEN "placed"
        ELSE order_data[k]]

\* create_order(order_data): the files after the call.
create_order(fs, order_data, uuid, now) ==
    LET sold == IF "seller_id" \in DOMAIN order_data
                THEN update_seller_stats(fs.seller_stats, order_data["seller_id"],
                                         "total_sold", 1, now)
                ELSE fs.seller_stats
        earned == IF "seller_id" \in DOMAIN order_data
                     /\ "total_amount" \in DOMAIN order_data
                  THEN update_seller_stats(sold, order_data["seller_id"],
                                           "revenue_earned",
                                           order_data["total_amount"], now)
                  ELSE sold
        placed_by == IF "buyer_id" \in DOMAIN order_data
                     THEN update_buyer_stats(fs.buyer_stats, order_data["buyer_id"],
                                             "orders_placed", 1, now)
                     ELSE fs.buyer_stats
        saved == IF "buyer_id" \in DOMAIN order_data
                    /\ "total_amount" \in DOMAIN order_data
                 THEN update_buyer_stats(placed_by, order_data["buyer_id"],
                                         "amount_saved",
                                         get(order_data, "amount_saved", 0), now)
                 ELSE placed_by
    IN  [fs EXCEPT !.orders = Append(@, order_stored(order_data, uuid, now)),
                   !.seller_stats = earned,
                   !.buyer_stats = saved]

(***************************************************************************)
(* Inputs                                                                  *)
(***************************************************************************)

\* "jewelry" is not a key of category_factors; "machine" is not a key of the
\* production multipliers.
CategoryInputs == {"textiles", "terracotta", "bamboo", "toys", "painting", "jewelry"}
MethodInputs   == {"handmade", "small-batch", "factory", "machine"}
WeightInputs    == {0 - 500, 0, 250, 1000000}
PackagingInputs == {0, 60}
DistanceInputs  == {0 - 100, 0, 280, 1000000}
RecycledInputs  == {0 - 20, 35, 100, 250}

Product(c, m, w, p, d, r) ==
    [x \in {"weight_g", "packaging_weight_g", "distance_km_to_market", "category",
            "percent_recycled_material", "production_method"} |->
        CASE x = "weight_g" -> w
          [] x = "packaging_weight_g" -> p
          [] x = "distance_km_to_market" -> d
          [] x = "category" -> c
          [] x = "percent_recycled_material" -> r
          [] x = "production_method" -> m]

\* The product of demo_chatbot.py with production_method handmade.
ScenarioA == Product("textiles", "handmade", 250, 60, 280, 35)

Restrict(f, S) == [x \in S |-> f[x]]

CompleteProducts ==
    { Product(c, m, w, p, d, r) :
        c \in CategoryInputs, m \in MethodInputs, w \in WeightInputs,
        p \in PackagingInputs, d \in DistanceInputs, r \in RecycledInputs }

\* Products lacking some of the six fields.
PartialProducts ==
    { Restrict(ScenarioA, S) : S \in (SUBSET DOMAIN ScenarioA) \ {DOMAIN ScenarioA} }

Products == CompleteProducts \cup PartialProducts

\* Bodies of /predict requests: null, or a product with any subset of the
\* required fields, with or without include_recommendations.
RequestBases ==
    { ScenarioA, Product("jewelry", "machine", 1000000, 60, 1000000, 250) }

RequestBodies ==
    {None}
    \cup { Restrict(b, S) : b \in RequestBases, S \in SUBSET DOMAIN ScenarioA }
    \cup { Restrict(b, S) @@ [include_recommendations |-> f] :
             b \in RequestBases, S \in SUBSET DOMAIN ScenarioA, f \in BOOLEAN }

\* Titles and descriptions; a pair without description is an item whose
\* description is None.
Texts ==
    { [title |-> "Handmade Bamboo Wind Chimes",
       description |-> "Beautiful wind chimes made from sustainable bamboo. Locally sourced and hand-carved by skilled artisans. Perfect for garden decoration."],
      [title |-> "Handmade Recycled Glass Vase",
       description |-> "Beautiful vase crafted from recycled glass bottles. Eco-friendly and locally sourced materials. Perfect for sustainable home decor."],
      [title |-> "Organic Cotton Embroidered Scarf",
       description |-> "Soft organic cotton scarf with traditional embroidery. Fair trade certified and hand-woven by local artisans."],
      [title |-> "Reclaimed WOOD Bowl", description |-> "Hand Made from OAK and Iron"],
      [title |-> "reclaimed wood bowl", description |-> "hand made from oak and iron"],
      [title |-> "RECLAIMED WOOD BOWL", description |-> "HAND MADE FROM OAK AND IRON"],
      [title |-> "Silver Earring", description |-> "sterling silver"],
      [title |-> "Plain Poster", description |-> ""],
      [title |-> "Notebook"],
      [title |-> "Handmade Bamboo Bowl", description |-> ""],
      [title |-> "Clay Mug"] }

PriceInputs == {0 - 5, 0, 24, 25, 30, 74, 75, 199, 200, 499, 500, 600}

MaterialInputs == { <<"Wood", "oak">>, <<"organic cotton", "silk thread">> }

With(f, field, values) == {f} \cup {f @@ (field :> v) : v \in values}

\* CraftItems: every text with and without a price and supplied materials,
\* and one text at every price.
CraftItems ==
    UNION { With(p, "materials", MaterialInputs) :
              p \in UNION { With(t, "price", {30}) : t \in Texts } }
    \cup With([title |-> "Silver Earring", description |-> "sterling silver"],
             "price", PriceInputs)

\* Pairs of items to compare: every two texts, at one price.
CraftItemPairs ==
    { << t @@ [price |-> 30], u @@ [price |-> 30] >> : t \in Texts, u \in Texts }

HashSeeds == {0, 1}

\* The dicts passed to tag_craft_from_dict; a price stands for every price
\* with that integer part (28 for the 28.50 of example_usage.py).
ItemData ==
    { [title |-> "Handmade Bamboo Wind Chimes",
       description |-> "Beautiful wind chimes made from sustainable bamboo. Locally sourced and hand-carved by skilled artisans. Perfect for garden decoration.",
       price |-> 28],
      [title |-> "Reclaimed WOOD Bowl", description |-> "Hand Made from OAK and Iron",
       materials |-> <<"Wood", "oak">>],
      [description |-> "sterling silver"],
      [price |-> 600] }

\* The last instant of the model's clock.
MaxClock == 2

(***************************************************************************)
(* State machine                                                           *)
(***************************************************************************)

tables == <<category_factors, craft_categories, sustainable_materials,
           price_categories>>

series == <<est_calls, est_results>>

concurrent == <<heap, threads>>

engine == <<pricing, price_call, price_result>>

otp == <<otp_storage, twilio, compared>>

local_storage == <<files, local_call, local_result>>

vars == <<est_arg, est, gemini_service, request, http, hashseed, items, taggings,
          clock, api_calls, api_results, tables, series, concurrent, engine, otp,
          local_storage>>

\* The tables as the import of backend/estimator.py and AutoTagger.__init__
\* leave them.
Imported ==
    /\ category_factors = CategoryFactorsTable
    /\ craft_categories = CraftCategoriesTable
    /\ sustainable_materials = SustainableMaterialsTable
    /\ price_categories = PriceCategoriesTable

EstimatorIdle == est_arg = None /\ est = None
PredictIdle   == gemini_service = FALSE /\ request = None /\ http = None
TaggerIdle    == items = <<>> /\ taggings = <<>>
ApiIdle       == clock = 0 /\ api_calls = <<>> /\ api_results = <<>>
SeriesIdle    == est_calls = <<>> /\ est_results = <<>>
NoThreads     == heap = <<>> /\ threads = <<>>
EngineIdle    == pricing = None /\ price_call = None /\ price_result = <<>>
OtpIdle       == otp_storage = <<>> /\ twilio = FALSE /\ compared = 0
LocalIdle     == files = None /\ local_call = None /\ local_result = None

\* A direct call estimate_eco_impact(product), as the scripts make it
\* (run_analysis.py, train_model.py, plot_results.py).
EstimateEcoImpact ==
    /\ est = None
    /\ \E ties \in Ties : est' = estimate_eco_impact(est_arg, ties)
    /\ UNCHANGED <<gemini_service, request, http, hashseed, items, taggings,
                   est_arg, clock, api_calls, api_results, tables, series, concurrent, engine, otp,
                   local_storage>>

\* One POST /predict request served.
Predict ==
    /\ http = None
    /\ \E ai \in {"ok", "raise"}, ties \in Ties :
           http' = predict(request.json, gemini_service, ai, ties)
    /\ UNCHANGED <<est_arg, est, gemini_service, request, hashseed, items, taggings,
                   clock, api_calls, api_results, tables, series, concurrent, engine, otp,
                   local_storage>>

\* One call AutoTagger.tag_item(item), on the next item.
TagItem ==
    /\ Len(taggings) < Len(items)
    /\ taggings' = Append(taggings, tag_item(items[Len(taggings) + 1], hashseed))
    /\ UNCHANGED <<est_arg, est, gemini_service, request, http, hashseed, items,
                   clock, api_calls, api_results, tables, series, concurrent, engine, otp,
                   local_storage>>

\* One call tag_craft_from_dict(item_data), on the next dict.
TagCraftFromDict ==
    /\ Len(api_results) < Len(api_calls)
    /\ api_results' = Append(api_results,
           tag_craft_from_dict(api_calls[Len(api_results) + 1], hashseed, clock))
    /\ UNCHANGED <<est_arg, est, gemini_service, request, http, hashseed, items,
                   taggings, clock, api_calls, tables, series, concurrent, engine, otp,
                   local_storage>>

\* Time passes.
Tick ==
    /\ clock < MaxClock
    /\ clock' = clock + 1
    /\ UNCHANGED <<est_arg, est, gemini_service, request, http, hashseed, items,
                   taggings, api_calls, api_results, tables, series, concurrent, engine, otp,
                   local_storage>>

InitEstimator ==
    /\ LocalIdle
    /\ Imported
    /\ EngineIdle
    /\ OtpIdle
    /\ NoThreads
    /\ SeriesIdle
    /\ est_arg \in Products
    /\ est = None
    /\ PredictIdle
    /\ hashseed = 0
    /\ TaggerIdle
    /\ ApiIdle

NextEstimator == EstimateEcoImpact

SpecEstimator == InitEstimator /\ [][NextEstimator]_vars

\* gemini_service is GeminiChatbotService() or None, decided at import.
InitPredict ==
    /\ LocalIdle
    /\ Imported
    /\ EngineIdle
    /\ OtpIdle
    /\ NoThreads
    /\ SeriesIdle
    /\ EstimatorIdle
    /\ gemini_service \in BOOLEAN
    /\ request \in [json : RequestBodies]
    /\ http = None
    /\ hashseed = 0
    /\ TaggerIdle
    /\ ApiIdle

NextPredict == Predict

SpecPredict == InitPredict /\ [][NextPredict]_vars

\* One item tagged.
InitTagger ==
    /\ LocalIdle
    /\ Imported
    /\ EngineIdle
    /\ OtpIdle
    /\ NoThreads
    /\ SeriesIdle
    /\ EstimatorIdle
    /\ PredictIdle
    /\ hashseed \in HashSeeds
    /\ items \in {<<i>> : i \in CraftItems}
    /\ taggings = <<>>
    /\ ApiIdle

NextTagger == TagItem

SpecTagger == InitTagger /\ [][NextTagger]_vars

\* Two items tagged one after the other by the same AutoTagger.
InitTaggerPair ==
    /\ LocalIdle
    /\ Imported
    /\ EngineIdle
    /\ OtpIdle
    /\ NoThreads
    /\ SeriesIdle
    /\ EstimatorIdle
    /\ PredictIdle
    /\ hashseed \in HashSeeds
    /\ items \in CraftItemPairs
    /\ taggings = <<>>
    /\ ApiIdle

NextTaggerPair == TagItem

SpecTaggerPair == InitTaggerPair /\ [][NextTaggerPair]_vars

\* Two calls of tag_craft_from_dict in one process, at any two instants.
InitApi ==
    /\ LocalIdle
    /\ Imported
    /\ EngineIdle
    /\ OtpIdle
    /\ NoThreads
    /\ SeriesIdle
    /\ EstimatorIdle
    /\ PredictIdle
    /\ hashseed \in HashSeeds
    /\ TaggerIdle
    /\ clock = 0
    /\ api_calls \in ItemData \X ItemData
    /\ api_results = <<>>

NextApi == TagCraftFromDict \/ Tick

SpecApi == InitApi /\ [][NextApi]_vars

\* The next call of a series of calls estimate_eco_impact(product).
EstimateNext ==
    /\ Len(est_results) < Len(est_calls)
    /\ \E ties \in Ties :
           LET product == est_calls[Len(est_results) + 1]
               result  == estimate_eco_impact(product, ties)
           IN  /\ \A j \in 1..Len(est_results) :
                      same_rounding(product, result, est_calls[j], est_results[j])
               /\ est_results' = Append(est_results, result)
    /\ UNCHANGED <<est_arg, est, gemini_service, request, http, hashseed, items,
                   taggings, clock, api_calls, api_results, tables, est_calls, concurrent, engine, otp,
                   local_storage>>

\* One product estimated under each production method: handmade, small-batch
\* and factory, in that order.
MethodSeries ==
    { << Product(c, "handmade", w, p, d, 35), Product(c, "small-batch", w, p, d, 35),
         Product(c, "factory", w, p, d, 35) >> :
        c \in CategoryInputs, w \in {0, 250, 400}, p \in PackagingInputs,
        d \in {0, 280, 1000} }

InitMethods ==
    /\ LocalIdle
    /\ Imported
    /\ EngineIdle
    /\ OtpIdle
    /\ NoThreads
    /\ EstimatorIdle
    /\ PredictIdle
    /\ hashseed = 0
    /\ TaggerIdle
    /\ ApiIdle
    /\ est_calls \in MethodSeries
    /\ est_results = <<>>

NextMethods == EstimateNext

SpecMethods == InitMethods /\ [][NextMethods]_vars

\* One product estimated before and after one of its numbers is raised.
MonotoneFields ==
    [weight_g |-> {0, 250, 2000},
     packaging_weight_g |-> {0, 60},
     distance_km_to_market |-> {0, 1, 280, 501, 1000},
     percent_recycled_material |-> {0, 35, 100}]

MonotoneSeries ==
    { << Product("textiles", m, w, p, d, r),
         [Product("textiles", m, w, p, d, r) EXCEPT ![x] = v] >> :
        m \in {"handmade", "small-batch", "factory"},
        w \in MonotoneFields["weight_g"], p \in MonotoneFields["packaging_weight_g"],
        d \in MonotoneFields["distance_km_to_market"],
        r \in MonotoneFields["percent_recycled_material"],
        x \in DOMAIN MonotoneFields, v \in UNION {MonotoneFields[y] : y \in DOMAIN MonotoneFields} }

InitMonotone ==
    /\ LocalIdle
    /\ Imported
    /\ EngineIdle
    /\ OtpIdle
    /\ NoThreads
    /\ EstimatorIdle
    /\ PredictIdle
    /\ hashseed = 0
    /\ TaggerIdle
    /\ ApiIdle
    /\ est_calls \in { c \in MonotoneSeries :
                          \E x \in DOMAIN MonotoneFields :
                              /\ c[2][x] \in MonotoneFields[x]
                              /\ c[1][x] < c[2][x] }
    /\ est_results = <<>>

NextMonotone == EstimateNext

SpecMonotone == InitMonotone /\ [][NextMonotone]_vars

\* Concurrent calls.  The heap holds one product and two items; each thread
\* runs estimate_eco_impact on the product or AutoTagger.tag_item on one of
\* the items (two threads may be given the same item), and keeps in arg a
\* copy of what it was given.  tag_item runs in four steps, between which the
\* other threads may run.
NThreads == 2

ConcurrentProducts == { ScenarioA, Product("jewelry", "machine", 250, 60, 280, 35) }

ConcurrentItems ==
    << [title |-> "Reclaimed WOOD Bowl", description |-> "Hand Made from OAK and Iron",
        materials |-> <<"Wood", "oak">>],
       [title |-> "Silver Earring", description |-> "sterling silver", price |-> 30] >>

Thread(obj, arg) ==
    [fn |-> IF obj = 1 THEN "estimate" ELSE "tag",
     obj |-> obj,
     arg |-> arg,
     pc |-> IF obj = 1 THEN "estimate" ELSE "categories",
     cats |-> None, materials |-> None, eco |-> None, result |-> None]

\* estimate_eco_impact(product), whole.
ThreadEstimate(t) ==
    /\ threads[t].pc = "estimate"
    /\ \E ties \in Ties :
           threads' = [threads EXCEPT
               ![t].result = estimate_eco_impact(heap[threads[t].obj], ties),
               ![t].pc = "done"]
    /\ category_factors' =
           category_factors_after(category_factors, heap[threads[t].obj])
    /\ UNCHANGED <<est_arg, est, gemini_service, request, http, hashseed, items,
                   taggings, clock, api_calls, api_results, craft_categories,
                   sustainable_materials, price_categories, series, heap, engine, otp,
                   local_storage>>

\* tag_item: categories, category_confidence = self.extract_categories(item)
ThreadCategories(t) ==
    /\ threads[t].pc = "categories"
    /\ threads' = [threads EXCEPT
           ![t].cats = extract_categories(heap[threads[t].obj]),
           ![t].pc = "materials"]
    /\ UNCHANGED <<est_arg, est, gemini_service, request, http, hashseed, items,
                   taggings, clock, api_calls, api_results, tables, series, heap, engine, otp,
                   local_storage>>

\* tag_item: materials = self.extract_materials(item)
ThreadMaterials(t) ==
    /\ threads[t].pc = "materials"
    /\ threads' = [threads EXCEPT
           ![t].materials = extract_materials(heap[threads[t].obj], hashseed),
           ![t].pc = "eco"]
    /\ heap' = [heap EXCEPT
           ![threads[t].obj] = item_after_extract_materials(heap[threads[t].obj])]
    /\ UNCHANGED <<est_arg, est, gemini_service, request, http, hashseed, items,
                   taggings, clock, api_calls, api_results, tables, series, engine, otp,
                   local_storage>>

\* tag_item: eco_score, sustainability_tags = self.calculate_eco_impact_score(...)
ThreadEco(t) ==
    /\ threads[t].pc = "eco"
    /\ threads' = [threads EXCEPT
           ![t].eco = calculate_eco_impact_score(heap[threads[t].obj],
                                                 threads[t].materials, hashseed),
           ![t].pc = "compile"]
    /\ UNCHANGED <<est_arg, est, gemini_service, request, http, hashseed, items,
                   taggings, clock, api_calls, api_results, tables, series, heap, engine, otp,
                   local_storage>>

\* tag_item: the price category, the extracted features, the confidence
\* scores and the TaggingResult returned.
ThreadCompile(t) ==
    /\ threads[t].pc = "compile"
    /\ threads' = [threads EXCEPT
           ![t].result = tagging_result(heap[threads[t].obj], threads[t].cats,
                                        threads[t].materials, threads[t].eco),
           ![t].pc = "done"]
    /\ UNCHANGED <<est_arg, est, gemini_service, request, http, hashseed, items,
                   taggings, clock, api_calls, api_results, tables, series, heap, engine, otp,
                   local_storage>>

InitConcurrent ==
    /\ LocalIdle
    /\ Imported
    /\ EngineIdle
    /\ OtpIdle
    /\ EstimatorIdle
    /\ PredictIdle
    /\ hashseed = 0
    /\ TaggerIdle
    /\ ApiIdle
    /\ SeriesIdle
    /\ heap \in { <<p>> \o ConcurrentItems : p \in ConcurrentProducts }
    /\ \E given \in [1..NThreads -> 1..3] :
           threads = [t \in 1..NThreads |-> Thread(given[t], heap[given[t]])]

NextConcurrent ==
    \E t \in 1..NThreads :
        \/ ThreadEstimate(t)
        \/ ThreadCategories(t)
        \/ ThreadMaterials(t)
        \/ ThreadEco(t)
        \/ ThreadCompile(t)

SpecConcurrent == InitConcurrent /\ [][NextConcurrent]_vars

\* The OTP routes.  The requests name one phone, written in two ways.
OtpCodes == {"1234", "5678"}

\* What a request that stores an OTP draws: the code generate_otp() returns,
\* what twilio_client...verifications.create does (it returns, or raises an
\* exception with this text) and whether FLASK_ENV is 'development'.
Deliveries ==
    { [otp |-> "1234", outcome |-> "sent", development |-> FALSE],
      [otp |-> "5678", outcome |-> "sent", development |-> TRUE],
      [otp |-> "1234", outcome |-> "Max send attempts reached", development |-> FALSE],
      [otp |-> "5678", outcome |-> "HTTP 503 Service Unavailable",
       development |-> FALSE] }

NoDelivery == [otp |-> "1234", outcome |-> "sent", development |-> FALSE]

\* The requests: a body that fails the validation draws nothing.  The phone
\* is written in one way when an OTP is requested and in another when it is
\* verified.
SendRequests ==
    { [json |-> [user_type |-> "buyer"], drawn |-> NoDelivery] }
    \cup { [json |-> [phone |-> "9876543210"], drawn |-> d] : d \in Deliveries }

ResetOtpRequests ==
    { [json |-> [phone |-> "9876543210", user_type |-> "admin"],
       drawn |-> NoDelivery] }
    \cup { [json |-> [phone |-> "9876543210", user_type |-> "seller"], drawn |-> d] :
             d \in Deliveries }

VerifyBodies ==
    {None, [phone |-> "+91 98765-43210"]}
    \cup {[phone |-> "+91 98765-43210", otp |-> c] : c \in OtpCodes}

ResetBodies ==
    {[phone |-> "+91 98765-43210", otp |-> "1234", user_type |-> "seller",
      new_password |-> "short"]}
    \cup {[phone |-> "+91 98765-43210", otp |-> c, user_type |-> "seller",
            new_password |-> "secret1"] : c \in OtpCodes}

MaxMinutes == 6

\* The four routes.  A request is served alone: its handler runs from the
\* first line to the response before the next request is taken.
SendOtp ==
    \E r \in SendRequests :
        \E served \in { send_otp(otp_storage, heap, r.json, clock, r.drawn.otp, twilio,
                                  r.drawn.development, r.drawn.outcome) } :
            /\ request' = [path |-> "/send-otp", json |-> r.json]
            /\ http' = served.response
            /\ otp_storage' = served.otp_storage
            /\ heap' = served.heap
            /\ UNCHANGED <<est_arg, est, gemini_service, hashseed, items, taggings,
                           clock, api_calls, api_results, tables, series, threads,
                           engine, twilio, compared, local_storage>>

SendResetPasswordOtp ==
    \E r \in ResetOtpRequests :
        \E served \in { send_reset_password_otp(otp_storage, heap, r.json, clock,
                             r.drawn.otp, twilio, r.drawn.development, r.drawn.outcome) } :
            /\ request' = [path |-> "/reset-password-otp", json |-> r.json]
            /\ http' = served.response
            /\ otp_storage' = served.otp_storage
            /\ heap' = served.heap
            /\ UNCHANGED <<est_arg, est, gemini_service, hashseed, items, taggings,
                           clock, api_calls, api_results, tables, series, threads,
                           engine, twilio, compared, local_storage>>

VerifyOtp ==
    \E json \in VerifyBodies :
        \E served \in { verify_otp(otp_storage, heap, json, clock) } :
            /\ request' = [path |-> "/verify-otp", json |-> json]
            /\ http' = served.response
            /\ otp_storage' = served.otp_storage
            /\ heap' = served.heap
            /\ UNCHANGED <<est_arg, est, gemini_service, hashseed, items, taggings,
                           clock, api_calls, api_results, tables, series, threads,
                           engine, twilio, compared, local_storage>>

ResetPassword ==
    \E json \in ResetBodies :
        \E served \in { reset_password(otp_storage, heap, json, clock) } :
            /\ request' = [path |-> "/reset-password", json |-> json]
            /\ http' = served.response
            /\ otp_storage' = served.otp_storage
            /\ heap' = served.heap
            /\ UNCHANGED <<est_arg, est, gemini_service, hashseed, items, taggings,
                           clock, api_calls, api_results, tables, series, threads,
                           engine, twilio, compared, local_storage>>

\* Time passes between two requests: to the minute at which the OTPs issued
\* at the start expire (they are still valid then), or to the minute after.
TimePasses ==
    /\ \E later \in {OtpMinutes, OtpMinutes + 1} :
           /\ clock < later
           /\ later <= MaxMinutes
           /\ clock' = later
    /\ UNCHANGED <<est_arg, est, gemini_service, request, http, hashseed, items,
                   taggings, api_calls, api_results, tables, series, concurrent,
                   engine, otp, local_storage>>

\* The process after the import of app.py: otp_storage = {}.
InitOtp ==
    /\ LocalIdle
    /\ Imported
    /\ EngineIdle
    /\ NoThreads
    /\ SeriesIdle
    /\ EstimatorIdle
    /\ PredictIdle
    /\ hashseed = 0
    /\ TaggerIdle
    /\ ApiIdle
    /\ otp_storage = <<>>
    /\ twilio \in BOOLEAN
    /\ compared = 0

NextOtp ==
    SendOtp \/ SendResetPasswordOtp \/ VerifyOtp \/ ResetPassword \/ TimePasses

SpecOtp == InitOtp /\ [][NextOtp]_vars

(***************************************************************************)
(* POST /verify-otp served by concurrent worker threads (app.run serves    *)
(* every request in a thread of its own): each thread runs verify_otp one  *)
(* statement at a time on the shared otp_storage.                          *)
(***************************************************************************)

\* del d[key] raises KeyError when the key is not in d.
NeverRaises(d, key) == FALSE
del_raises(d, key) == key \notin DOMAIN d

\* str(KeyError(key))
key_error(key) == "'" \o key \o "'"

\* except Exception as e: return jsonify({"error": str(e)}), 500
internal_error(text) == [status |-> 500, body |-> [error |-> text]]

\* A thread that serves POST /verify-otp with the body json: where it is,
\* and the locals of verify_otp and of clean_expired_otps (size and position
\* are those of the iterator of otp_storage.items(); attempts is the value
\* read by `stored_data['attempts'] += 1`).
Verifier(json) ==
    [fn |-> "verify_otp", data |-> json, pc |-> "begin",
     size |-> 0, position |-> 0, expired_keys |-> <<>>,
     formatted_phone |-> "", stored_data |-> 0, attempts |-> 0,
     response |-> None]

\* The addresses that otp_storage and the locals of the threads hold.
referenced(storage, ths) ==
    addresses(storage) \cup {ths[t].stored_data : t \in DOMAIN ths}

\* The thread returns the response; its locals are gone.
finished(ths, t, response) ==
    [ths EXCEPT ![t].pc = "done", ![t].response = response, ![t].stored_data = 0]

\* Lines 406-414 and 85-88: the body is validated and clean_expired_otps
\* starts to iterate over otp_storage.items().
VerifyBegin(t) ==
    /\ threads[t].pc = "begin"
    /\ threads' =
           IF missing(threads[t].data, "phone") \/ missing(threads[t].data, "otp")
           THEN finished(threads, t,
                    [status |-> 400,
                     body |-> [error |-> "Phone number and OTP are required"]])
           ELSE [threads EXCEPT ![t].pc = "scan",
                                ![t].size = Cardinality(DOMAIN otp_storage)]
    /\ UNCHANGED <<est_arg, est, gemini_service, request, http, hashseed, items,
                   taggings, clock, api_calls, api_results, tables, series, engine,
                   heap, otp, local_storage>>

\* Lines 88-90: one turn of `for phone, data in otp_storage.items()`.  The
\* iterator raises RuntimeError when the dict has changed size since the
\* loop began.
VerifyScan(t) ==
    /\ threads[t].pc = "scan"
    /\ threads' =
           IF Cardinality(DOMAIN otp_storage) # threads[t].size
           THEN finished(threads, t,
                    internal_error("dictionary changed size during iteration"))
           ELSE IF threads[t].position < threads[t].size
           THEN LET phone == CHOOSE k \in DOMAIN otp_storage : TRUE
                    data == heap[otp_storage[phone]]
                IN  [threads EXCEPT
                        ![t].position = @ + 1,
                        ![t].expired_keys =
                            IF clock > data.expires_at THEN Append(@, phone) ELSE @]
           ELSE [threads EXCEPT ![t].pc = "purge"]
    /\ UNCHANGED <<est_arg, est, gemini_service, request, http, hashseed, items,
                   taggings, clock, api_calls, api_results, tables, series, engine,
                   heap, otp, local_storage>>

\* Lines 92-93 and 417: `del otp_storage[key]` for the next expired key, or,
\* when there is none left, formatted_phone = format_phone_number(phone).
VerifyPurge(t) ==
    /\ threads[t].pc = "purge"
    /\ IF threads[t].expired_keys = <<>>
       THEN /\ threads' = [threads EXCEPT
                   ![t].pc = "lookup",
                   ![t].formatted_phone =
                       format_phone_number(threads[t].data["phone"])]
            /\ otp_storage' = otp_storage
       ELSE IF del_raises(otp_storage, Head(threads[t].expired_keys))
       THEN /\ threads' = finished(threads, t,
                   internal_error(key_error(Head(threads[t].expired_keys))))
            /\ otp_storage' = otp_storage
       ELSE /\ threads' = [threads EXCEPT ![t].expired_keys = Tail(@)]
            /\ otp_storage' = deleted(otp_storage, Head(threads[t].expired_keys))
    /\ heap' = collected(heap, referenced(otp_storage', threads'))
    /\ UNCHANGED <<est_arg, est, gemini_service, request, http, hashseed, items,
                   taggings, clock, api_calls, api_results, tables, series, engine,
                   twilio, compared, local_storage>>

\* Lines 420-424: if formatted_phone not in otp_storage
VerifyLookup(t) ==
    /\ threads[t].pc = "lookup"
    /\ threads' =
           IF threads[t].formatted_phone \notin DOMAIN otp_storage
           THEN finished(threads, t,
                    [status |-> 400,
                     body |-> [success |-> FALSE, error |-> verify_texts.missing]])
           ELSE [threads EXCEPT ![t].pc = "fetch"]
    /\ UNCHANGED <<est_arg, est, gemini_service, request, http, hashseed, items,
                   taggings, clock, api_calls, api_results, tables, series, engine,
                   heap, otp, local_storage>>

\* Line 426: stored_data = otp_storage[formatted_phone]
VerifyFetch(t) ==
    /\ threads[t].pc = "fetch"
    /\ threads' =
           IF threads[t].formatted_phone \notin DOMAIN otp_storage    \* KeyError
           THEN finished(threads, t,
                    internal_error(key_error(threads[t].formatted_phone)))
           ELSE [threads EXCEPT
                    ![t].pc = "limit",
                    ![t].stored_data = otp_storage[threads[t].formatted_phone]]
    /\ UNCHANGED <<est_arg, est, gemini_service, request, http, hashseed, items,
                   taggings, clock, api_calls, api_results, tables, series, engine,
                   heap, otp, local_storage>>

\* Line 429: if stored_data['attempts'] >= 3
VerifyLimit(t) ==
    /\ threads[t].pc = "limit"
    /\ threads' = [threads EXCEPT ![t].pc =
           IF heap[threads[t].stored_data].attempts >= AttemptLimit
           THEN "limit_del" ELSE "compare"]
    /\ UNCHANGED <<est_arg, est, gemini_service, request, http, hashseed, items,
                   taggings, clock, api_calls, api_results, tables, series, engine,
                   heap, otp, local_storage>>

\* Lines 430-434: del otp_storage[formatted_phone], 'Too many failed attempts'.
VerifyLimitDelete(t) ==
    /\ threads[t].pc = "limit_del"
    /\ IF del_raises(otp_storage, threads[t].formatted_phone)
       THEN /\ threads' = finished(threads, t,
                   internal_error(key_error(threads[t].formatted_phone)))
            /\ otp_storage' = otp_storage
       ELSE /\ threads' = finished(threads, t,
                   [status |-> 400,
                    body |-> [success |-> FALSE, error |-> verify_texts.limit]])
            /\ otp_storage' = deleted(otp_storage, threads[t].formatted_phone)
    /\ heap' = collected(heap, referenced(otp_storage', threads'))
    /\ UNCHANGED <<est_arg, est, gemini_service, request, http, hashseed, items,
                   taggings, clock, api_calls, api_results, tables, series, engine,
                   twilio, compared, local_storage>>

\* Line 437: if stored_data['otp'] == otp
VerifyCompare(t) ==
    /\ threads[t].pc = "compare"
    /\ IF heap[threads[t].stored_data].otp = threads[t].data["otp"]
       THEN /\ threads' = [threads EXCEPT ![t].pc = "success_del"]
            /\ compared' = compared
       ELSE /\ threads' = [threads EXCEPT ![t].pc = "load"]
            /\ compared' = compared + 1
    /\ UNCHANGED <<est_arg, est, gemini_service, request, http, hashseed, items,
                   taggings, clock, api_calls, api_results, tables, series, engine,
                   heap, otp_storage, twilio, local_storage>>

\* Lines 439-443: del otp_storage[formatted_phone], 'OTP verified successfully'.
VerifySuccessDelete(t) ==
    /\ threads[t].pc = "success_del"
    /\ IF del_raises(otp_storage, threads[t].formatted_phone)
       THEN /\ threads' = finished(threads, t,
                   internal_error(key_error(threads[t].formatted_phone)))
            /\ otp_storage' = otp_storage
       ELSE /\ threads' = finished(threads, t,
                   [status |-> 200,
                    body |-> [success |-> TRUE, message |-> verify_texts.verified]])
            /\ otp_storage' = deleted(otp_storage, threads[t].formatted_phone)
    /\ heap' = collected(heap, referenced(otp_storage', threads'))
    /\ UNCHANGED <<est_arg, est, gemini_service, request, http, hashseed, items,
                   taggings, clock, api_calls, api_results, tables, series, engine,
                   twilio, compared, local_storage>>

\* Line 446, stored_data['attempts'] += 1: the item is read ...
VerifyLoadAttempts(t) ==
    /\ threads[t].pc = "load"
    /\ threads' = [threads EXCEPT
           ![t].pc = "store",
           ![t].attempts = heap[threads[t].stored_data].attempts]
    /\ UNCHANGED <<est_arg, est, gemini_service, request, http, hashseed, items,
                   taggings, clock, api_calls, api_results, tables, series, engine,
                   heap, otp, local_storage>>

\* ... and the value read plus one is written; other threads can run in
\* between.
VerifyStoreAttempts(t) ==
    /\ threads[t].pc = "store"
    /\ heap' = [heap EXCEPT ![threads[t].stored_data].attempts = threads[t].attempts + 1]
    /\ threads' = [threads EXCEPT ![t].pc = "answer"]
    /\ UNCHANGED <<est_arg, est, gemini_service, request, http, hashseed, items,
                   taggings, clock, api_calls, api_results, tables, series, engine,
                   otp, local_storage>>

\* Lines 447-451: 'Invalid OTP', attempts_remaining = 3 - stored_data['attempts']
VerifyAnswer(t) ==
    /\ threads[t].pc = "answer"
    /\ threads' = finished(threads, t,
           [status |-> 400,
            body |-> [success |-> FALSE, error |-> verify_texts.invalid,
                      attempts_remaining |->
                          3 - heap[threads[t].stored_data].attempts]])
    /\ heap' = collected(heap, referenced(otp_storage, threads'))
    /\ UNCHANGED <<est_arg, est, gemini_service, request, http, hashseed, items,
                   taggings, clock, api_calls, api_results, tables, series, engine,
                   otp, local_storage>>

\* One OTP, 1234, issued for the phone at minute 0, after which between no
\* and two wrong codes were sent one after the other; now, before or after
\* its expiry, NThreads requests to verify it are served at once.
InitVerifiers ==
    /\ LocalIdle
    /\ Imported
    /\ EngineIdle
    /\ SeriesIdle
    /\ EstimatorIdle
    /\ PredictIdle
    /\ hashseed = 0
    /\ TaggerIdle
    /\ api_calls = <<>>
    /\ api_results = <<>>
    /\ clock \in {0, OtpMinutes + 1}
    /\ twilio = FALSE
    /\ compared \in 0..(AttemptLimit - 1)
    /\ heap = << [otp |-> "1234", expires_at |-> OtpMinutes, attempts |-> compared] >>
    /\ otp_storage = [k \in {format_phone_number("9876543210")} |-> 1]
    /\ \E otps \in [1..NThreads -> OtpCodes] :
           threads = [t \in 1..NThreads |->
                         Verifier([phone |-> "+91 98765-43210", otp |-> otps[t]])]

NextVerifiers ==
    \E t \in 1..NThreads :
        \/ VerifyBegin(t)
        \/ VerifyScan(t)
        \/ VerifyPurge(t)
        \/ VerifyLookup(t)
        \/ VerifyFetch(t)
        \/ VerifyLimit(t)
        \/ VerifyLimitDelete(t)
        \/ VerifyCompare(t)
        \/ VerifySuccessDelete(t)
        \/ VerifyLoadAttempts(t)
        \/ VerifyStoreAttempts(t)
        \/ VerifyAnswer(t)

SpecVerifiers == InitVerifiers /\ [][NextVerifiers]_vars

(***************************************************************************)
(* LocalStorageService: the product search and the orders.                 *)
(***************************************************************************)

MaxProducts == 3

\* The products of products.json, but for their id and created_at: one
\* with the term in its name, one without the term (and without material),
\* one of another category with the term in its material, one that is sold.
StoredProducts ==
    { [name |-> "Wooden Bowl", description |-> "hand carved", material |-> "teak",
       category |-> "decor", status |-> "active"],
      [name |-> "Clay Pot", description |-> "terracotta", category |-> "decor",
       status |-> "active"],
      [name |-> "Spoon", description |-> "for the kitchen", material |-> "WOOD",
       category |-> "kitchen", status |-> "active"],
      [name |-> "Lamp", description |-> "of driftwood", material |-> "wood",
       category |-> "decor", status |-> "sold"] }

\* create_product gives every product its id and its created_at.
Listed(stored, n) ==
    [k \in DOMAIN stored \cup {"id", "created_at"} |->
        IF k \in {"id", "created_at"} THEN n ELSE stored[k]]

ProductFiles ==
    UNION { { [n \in 1..len |-> Listed(chosen[n], n)] :
              chosen \in [1..len -> StoredProducts] } : len \in 0..MaxProducts }

\* GET /api/products/search?q=Wood&category=...&limit=...
SearchCalls ==
    { [op |-> "search_products", search_term |-> "Wood", category |-> c, limit |-> l] :
        c \in {"", "decor"}, l \in 1..2 }

\* search_products(search_term, category, limit)
SearchProducts ==
    /\ local_result = None
    /\ local_result' = << search_products(files.products, local_call.search_term,
                                          local_call.category, local_call.limit) >>
    /\ UNCHANGED <<files, local_call>>
    /\ UNCHANGED <<est_arg, est, gemini_service, request, http, hashseed, items,
                   taggings, clock, api_calls, api_results, tables, series,
                   concurrent, engine, otp>>

\* products.json as earlier runs left it, and the search about to be made.
InitSearch ==
    /\ Imported
    /\ EngineIdle
    /\ OtpIdle
    /\ NoThreads
    /\ SeriesIdle
    /\ EstimatorIdle
    /\ PredictIdle
    /\ hashseed = 0
    /\ TaggerIdle
    /\ ApiIdle
    /\ \E products \in ProductFiles :
           files = [products |-> products, orders |-> <<>>,
                    seller_stats |-> <<>>, buyer_stats |-> <<>>]
    /\ local_call \in SearchCalls
    /\ local_result = None

NextSearch == SearchProducts

SpecSearch == InitSearch /\ [][NextSearch]_vars

MaxOrders == 3

\* The order_data of POST /api/orders, as create_order_api builds it: the
\* ids of the body, and total_amount and amount_saved as floats.
OrderRequests ==
    { [buyer_id |-> b, seller_id |-> s, product_name |-> "Wooden Bowl",
       total_amount |-> a.total_amount, amount_saved |-> a.amount_saved] :
        b \in {"b1", "b2"}, s \in {"s1", "s2"},
        a \in { [total_amount |-> 2500, amount_saved |-> 250],
                [total_amount |-> 995, amount_saved |-> 0] } }

\* create_order(order_data), served alone; the uuid of the order is new.
CreateOrder ==
    /\ Len(files.orders) < MaxOrders
    /\ \E order_data \in OrderRequests :
           /\ local_call' = [op |-> "create_order", order_data |-> order_data]
           /\ files' = create_order(files, order_data, Len(files.orders) + 1, clock)
           /\ local_result' = << Len(files.orders) + 1 >>
    /\ UNCHANGED <<est_arg, est, gemini_service, request, http, hashseed, items,
                   taggings, clock, api_calls, api_results, tables, series,
                   concurrent, engine, otp>>

\* The files as ensure_directories creates them.
InitOrders ==
    /\ Imported
    /\ EngineIdle
    /\ OtpIdle
    /\ NoThreads
    /\ SeriesIdle
    /\ EstimatorIdle
    /\ PredictIdle
    /\ hashseed = 0
    /\ TaggerIdle
    /\ ApiIdle
    /\ files = [products |-> <<>>, orders |-> <<>>,
                seller_stats |-> <<>>, buyer_stats |-> <<>>]
    /\ local_call = None
    /\ local_result = None

NextOrders == CreateOrder

SpecOrders == InitOrders /\ [][NextOrders]_vars

\* The pricing engine.
ModelNames == {"xgboost", "random_forest"}

\* What a regressor of AdvancedPricingModel does in a call: a price in 1e-3
\* (negative, zero, 1000.0, 3000.0) or an exception.
EnsembleOutcomes ==
    { Num(0 - 500000), Num(0), Num(1000000), Num(3000000), Raises("ValueError") }

\* What the CatBoost model of PricePredictionService does in a call: a price
\* in 1e-3 (among them prices that are not whole cents) or an exception.
CatBoostOutcomes ==
    { Num(0 - 2000), Num(0), Num(4), Num(13), Num(17), Num(50005), Num(52345),
      Raises("CatBoostError") }

\* Dicts with each of the given keys absent or bound to one of its values.
Dicts(choices) ==
    UNION { [S -> UNION {choices[k] : k \in S}] \cap
            { f \in [S -> UNION {choices[k] : k \in S}] :
                  \A k \in S : f[k] \in choices[k] } :
            S \in SUBSET DOMAIN choices }

FeatureMaps ==
    Dicts([craft_type |-> {Str("blue_pottery"), Str("Silver JEWELRY box"), Null},
           sustainability_score |-> {Num(70)},
           material_quality |-> {Str("high")}])

ServiceProducts ==
    Dicts([category |-> {Str("Pottery"), Str("jewelry"), Null},
           hours_of_labor |-> {Num(0), Num(3), Null}])

BasePrices == {0, 1999, 5000}

AnalyzedProducts ==
    Dicts([category |-> {Str("paintings"), Null},
           location |-> {Str("Madhubani, Bihar"), Null},
           description |-> {Str("Handmade Madhubani painting"), Null}])

ServiceStates ==
    { [available |-> TRUE, is_loaded |-> TRUE],
      [available |-> TRUE, is_loaded |-> FALSE],
      [available |-> FALSE, is_loaded |-> FALSE] }

Unloaded == [available |-> TRUE, is_loaded |-> FALSE]

\* One call AdvancedPricingModel.predict_price(features).
PredictPrice ==
    /\ price_call # None
    /\ price_call.op = "predict_price"
    /\ price_result = <<>>
    /\ price_result' =
           << predict_price(pricing.models, price_call.features, price_call.outcomes) >>
    /\ UNCHANGED <<est_arg, est, gemini_service, request, http, hashseed, items,
                   taggings, clock, api_calls, api_results, tables, series,
                   concurrent, pricing, price_call, otp, local_storage>>

\* One call PricePredictionService.predict_price(product_data).
ServicePredictPrice ==
    /\ price_call # None
    /\ price_call.op = "service_predict_price"
    /\ price_result = <<>>
    /\ \E ties \in Ties3 :
           price_result' =
               << service_predict_price(pricing.service, price_call.product_data,
                                        price_call.outcome, ties) >>
    /\ UNCHANGED <<est_arg, est, gemini_service, request, http, hashseed, items,
                   taggings, clock, api_calls, api_results, tables, series,
                   concurrent, pricing, price_call, otp, local_storage>>

\* One call PricePredictionService.get_price_suggestions(base_price, product_data).
GetPriceSuggestions ==
    /\ price_call # None
    /\ price_call.op = "get_price_suggestions"
    /\ price_result = <<>>
    /\ \E ties \in Ties3 :
           price_result' =
               << get_price_suggestions(pricing.service, price_call.base_price,
                                        price_call.product_data, price_call.outcome,
                                        ties) >>
    /\ UNCHANGED <<est_arg, est, gemini_service, request, http, hashseed, items,
                   taggings, clock, api_calls, api_results, tables, series,
                   concurrent, pricing, price_call, otp, local_storage>>

\* One call AdvancedCraftAnalyzer.comprehensive_analysis(product_data).
ComprehensiveAnalysis ==
    /\ price_call # None
    /\ price_call.op = "comprehensive_analysis"
    /\ price_result = <<>>
    /\ price_result' =
           << advanced_comprehensive_analysis(pricing.models, price_call.product_data,
                  price_call.outcomes, price_call.overall_score, clock) >>
    /\ UNCHANGED <<est_arg, est, gemini_service, request, http, hashseed, items,
                   taggings, clock, api_calls, api_results, tables, series,
                   concurrent, pricing, price_call, otp, local_storage>>

PricingCalls ==
    { [op |-> "predict_price", features |-> f, outcomes |-> o] :
        f \in FeatureMaps, o \in [ModelNames -> EnsembleOutcomes] }

ServiceCalls ==
    { [op |-> "service_predict_price", product_data |-> d, outcome |-> o] :
        d \in {[category |-> Str("Pottery"), hours_of_labor |-> Num(3)]},
        o \in CatBoostOutcomes }
    \cup
    { [op |-> "get_price_suggestions", base_price |-> b, product_data |-> d,
       outcome |-> o] :
        b \in BasePrices, d \in ServiceProducts, o \in CatBoostOutcomes }

\* The engine as the constructors leave it: self.models holds the models
\* load_models found (none, one or both); the CatBoost model is loaded or not.
InitPricing ==
    /\ LocalIdle
    /\ Imported
    /\ OtpIdle
    /\ EstimatorIdle
    /\ PredictIdle
    /\ hashseed = 0
    /\ TaggerIdle
    /\ ApiIdle
    /\ SeriesIdle
    /\ NoThreads
    /\ price_result = <<>>
    /\ \/ /\ pricing \in [models : SUBSET ModelNames, service : {Unloaded}]
          /\ price_call \in PricingCalls
       \/ /\ pricing \in [models : {{}}, service : ServiceStates]
          /\ price_call \in ServiceCalls

NextPricing == PredictPrice \/ ServicePredictPrice \/ GetPriceSuggestions

SpecPricing == InitPricing /\ [][NextPricing]_vars

AnalysisCalls ==
    { [op |-> "comprehensive_analysis", product_data |-> d,
       outcomes |-> <<o, o>>, overall_score |-> sc] :
        d \in AnalyzedProducts,
        o \in [ModelNames -> {Num(1000000), Num(3000000), Raises("ValueError")}],
        sc \in {0, 45, 70} }

InitAnalysis ==
    /\ LocalIdle
    /\ Imported
    /\ OtpIdle
    /\ EstimatorIdle
    /\ PredictIdle
    /\ hashseed = 0
    /\ TaggerIdle
    /\ ApiIdle
    /\ SeriesIdle
    /\ NoThreads
    /\ price_result = <<>>
    /\ pricing \in [models : SUBSET ModelNames, service : {Unloaded}]
    /\ price_call \in AnalysisCalls

NextAnalysis == ComprehensiveAnalysis

SpecAnalysis == InitAnalysis /\ [][NextAnalysis]_vars

(***************************************************************************)
(* Properties of estimate_eco_impact (SpecEstimator)                       *)
(***************************************************************************)

AllFields == {"weight_g", "packaging_weight_g", "distance_km_to_market",
              "category", "percent_recycled_material", "production_method"}

\* The call was made on a product carrying the six fields.
EstimatedComplete == est # None /\ DOMAIN est_arg = AllFields

\* C1: for every product carrying the six required fields, whatever their
\* values, estimate_eco_impact returns a co2_saving that is >= 0.
C1_Co2SavingNonNegative ==
    EstimatedComplete => est.raised = NotRaised /\ est.co2_saving >= 0

\* C1 witness: a product whose artisan CO2 exceeds the factory CO2 (multiplier
\* 1.0 and a negative distance), where the saving is cut off at 0.
C1_Witness ==
    /\ EstimatedComplete
    /\ est_arg["category"] = "terracotta"
    /\ est_arg["production_method"] = "factory"
    /\ est_arg["distance_km_to_market"] < 0
    /\ est.co2_saving = 0

C5_Expected(p) ==
    LET known == p["category"] \in {"textiles", "terracotta", "bamboo", "toys", "painting"}
        F == IF known THEN category_factors[p["category"]].factory ELSE 30
        H == IF known THEN category_factors[p["category"]].handmade_mult ELSE 8
        M == IF p["production_method"] = "handmade" THEN H
             ELSE IF p["production_method"] = "small-batch" THEN 7
             ELSE IF p["production_method"] = "factory" THEN 10
             ELSE 8
        B == IF p["production_method"] = "handmade" THEN 35000
             ELSE IF p["production_method"] = "small-batch" THEN 20000
             ELSE 0
        g == p["weight_g"] + p["packaging_weight_g"]
        d == p["distance_km_to_market"]
        saving == g * F * (10 - M) + d * 700
        score  == 400 * p["percent_recycled_material"] + B
                  - (IF 50 * d < 25000 THEN 50 * d ELSE 25000)
                  - (IF 8 * g < 15000 THEN 8 * g ELSE 15000)
    IN  [co2_saving |-> IF saving > 0 THEN saving ELSE 0,
         sustainability_score |-> IF score < 0 THEN 0
                                  ELSE IF score > 95000 THEN 95000 ELSE score]

\* v is n / d rounded to the nearest unit (either neighbour at a tie).
IsRounded(v, n, d) == 2 * d * v >= 2 * n - d /\ 2 * d * v <= 2 * n + d

\* C5: a product whose category is not a key of category_factors, or whose
\* production_method is not one of the three known, raises nothing and is
\* computed with the defaults (factory 3.0, handmade_mult 0.8; production
\* multiplier 0.8, method bonus 0).
C5_UnknownUsesDefaults ==
    ( /\ EstimatedComplete
      /\ \/ est_arg["category"] \notin DOMAIN category_factors
         \/ est_arg["production_method"] \notin {"handmade", "small-batch", "factory"} )
    => /\ est.raised = NotRaised
       /\ IsRounded(est.co2_saving, C5_Expected(est_arg).co2_saving, 1000)
       /\ IsRounded(est.sustainability_score,
                    C5_Expected(est_arg).sustainability_score, 100)

\* C5 witness: an unknown category made by hand, so that both default factors
\* are used, with a positive saving.
C5_Witness ==
    /\ EstimatedComplete
    /\ est_arg["category"] = "jewelry"
    /\ est_arg["production_method"] = "handmade"
    /\ est.raised = NotRaised
    /\ est.co2_saving > 0

\* C7 as claimed: for the product {textiles, 250 g, 60 g packaging, 280 km,
\* 35 % recycled, handmade} estimate_eco_impact returns co2_saving > 0 and a
\* sustainability_score between 40 and 70.
C7_ScenarioA ==
    (est # None /\ est_arg = ScenarioA) =>
        /\ est.raised = NotRaised
        /\ est.co2_saving > 0
        /\ est.sustainability_score >= 400
        /\ est.sustainability_score <= 700

\* C19 as claimed: for every category, weight, packaging weight and
\* distance, co2_saving(handmade) >= co2_saving(small-batch) >=
\* co2_saving(factory).
C19_HandmadeSavesMost ==
    Len(est_results) = 3 =>
        /\ est_results[1].co2_saving >= est_results[2].co2_saving
        /\ est_results[2].co2_saving >= est_results[3].co2_saving

(***************************************************************************)
(* Properties of POST /predict (SpecPredict)                               *)
(***************************************************************************)

Tagged == Len(taggings) = 1 /\ Len(items) = 1

\* C3: the eco_impact_score of every tagging lies in [0, 1] (0..100 in
\* hundredths), however many sustainability keywords match.
C3_EcoScoreInUnitInterval ==
    \A i \in 1..Len(taggings) :
        taggings[i].eco_impact_score >= 0 /\ taggings[i].eco_impact_score <= 100

\* C3 witness: six tags matched (points 0.3 + 0.75 > 1) and the score is 1.0.
C3_Witness ==
    /\ Tagged
    /\ Cardinality(Range(taggings[1].sustainability_tags)) >= 6
    /\ taggings[1].eco_impact_score = 100

\* The label of the range that holds a price, with the ranges budget [0,25),
\* affordable [25,75), mid_range [75,200), premium [200,500), luxury [500,inf).
C8_Label(price) ==
    IF price < 25 THEN "budget"
    ELSE IF price < 75 THEN "affordable"
    ELSE IF price < 200 THEN "mid_range"
    ELSE IF price < 500 THEN "premium"
    ELSE "luxury"

\* C8: categorize_price returns 'unknown' exactly when the price is absent,
\* and for a price in one of the ranges the label of that range, each
\* breakpoint belonging to the higher bucket.
C8_PriceCategory ==
    Tagged =>
        /\ taggings[1].price_category = "unknown" <=> "price" \notin DOMAIN items[1]
        /\ ("price" \in DOMAIN items[1] /\ items[1]["price"] >= 0)
               => taggings[1].price_category = C8_Label(items[1]["price"])

\* C8 witness: a price on a breakpoint has been put in the higher bucket.
C8_Witness ==
    /\ Tagged
    /\ "price" \in DOMAIN items[1]
    /\ items[1]["price"] = 75
    /\ taggings[1].price_category = "mid_range"

\* The sustainability keywords, and whether a text names handmade work.
C9_Keywords == UNION { Range(sustainable_materials[i].keywords) : i \in 1..6 }
C9_Handmade(text) ==
    \E k \in {"handmade", "hand made", "artisan", "crafted", "handcrafted"} : In(k, text)

\* C9: for every text that contains a handmade-indicating keyword and a
\* sustainability keyword, the sustainability_tags include 'handmade' and
\* every sustainability keyword the text contains, and the eco_impact_score
\* is above the base 0.3 and at most 1.0.
C9_HandmadeAndSustainable ==
    Tagged =>
        LET text  == item_text(items[1])
            found == {k \in C9_Keywords : In(k, text)}
        IN  (C9_Handmade(text) /\ found # {})
            => /\ found \cup {"handmade"} \subseteq Range(taggings[1].sustainability_tags)
               /\ taggings[1].eco_impact_score > 30
               /\ taggings[1].eco_impact_score <= 100

\* C9 witness: the wind chimes of example_usage.py, tagged 'handmade' and
\* 'locally sourced'.
C9_Witness ==
    /\ Tagged
    /\ items[1]["title"] = "Handmade Bamboo Wind Chimes"
    /\ {"handmade", "locally sourced", "sustainable", "bamboo"}
           \subseteq Range(taggings[1].sustainability_tags)
    /\ taggings[1].eco_impact_score = 85

\* Two strings that differ at most in letter case.
C10_SameLetters(s, t) ==
    /\ Len(s) = Len(t)
    /\ \A i \in 1..Len(s) :
           LET a == SubSeq(s, i, i)
               b == SubSeq(t, i, i)
           IN  \/ a = b
               \/ a \in DOMAIN to_lower /\ to_lower[a] = b
               \/ b \in DOMAIN to_lower /\ to_lower[b] = a

C10_SameButCase(a, b) ==
    /\ DOMAIN a = DOMAIN b
    /\ \A f \in DOMAIN a :
           IF f \in {"title", "description"} THEN C10_SameLetters(a[f], b[f])
           ELSE a[f] = b[f]

\* C10: two items whose title and description differ only in letter case get
\* the same categories (with the same confidences), the same materials, the
\* same sustainability tags and the same eco_impact_score.
C10_CaseInsensitive ==
    (Len(taggings) = 2 /\ C10_SameButCase(items[1], items[2]))
    => /\ taggings[1].categories = taggings[2].categories
       /\ taggings[1].confidence_scores = taggings[2].confidence_scores
       /\ taggings[1].materials = taggings[2].materials
       /\ taggings[1].sustainability_tags = taggings[2].sustainability_tags
       /\ taggings[1].eco_impact_score = taggings[2].eco_impact_score

\* C10 witness: "WOOD" and "wood" items, both tagged, with wood detected.
C10_Witness ==
    /\ Len(taggings) = 2
    /\ items[1]["title"] = "Reclaimed WOOD Bowl"
    /\ items[2]["title"] = "reclaimed wood bowl"
    /\ C10_SameButCase(items[1], items[2])
    /\ "wood" \in Range(taggings[2].materials)
    /\ taggings[2].categories # <<>>

\* Every keyword the tagger looks for.
C11_Vocabulary ==
    UNION { Range(craft_categories[i].keywords) : i \in 1..Len(craft_categories) }
    \cup Range(material_keywords)
    \cup UNION { Range(sustainable_materials[i].keywords) :
                   i \in 1..Len(sustainable_materials) }
    \cup Range(handmade_keywords)

C11_NoDescription(item) ==
    "description" \notin DOMAIN item \/ item["description"] = ""

C11_Empty(tagging) ==
    /\ tagging.categories = <<>>
    /\ tagging.materials = <<>>
    /\ tagging.sustainability_tags = <<>>
    /\ tagging.eco_impact_score = 30

\* C11 as claimed: an item whose description is empty or missing is tagged
\* with empty categories, materials and sustainability tags and the base
\* score 0.3.
C11_EmptyDescription ==
    (Tagged /\ C11_NoDescription(items[1])) => C11_Empty(taggings[1])

\* C11, amended: an item whose description is empty or missing, whose title
\* contains none of the tagger's keywords and which supplies no materials is
\* tagged with empty categories, materials and sustainability tags and the
\* base score 0.3 (30 hundredths).
C11_EmptyText ==
    ( /\ Tagged
      /\ C11_NoDescription(items[1])
      /\ "materials" \notin DOMAIN items[1]
      /\ \A k \in C11_Vocabulary : ~ In(k, lower(items[1]["title"])) )
    => C11_Empty(taggings[1])

\* C11 witness: an item without description and without keywords, tagged.
C11_Witness ==
    /\ Tagged
    /\ items[1]["title"] = "Notebook"
    /\ DOMAIN items[1] = {"title"}
    /\ C11_Empty(taggings[1])
    /\ taggings[1].extracted_features.word_count = 0

\* C17 as claimed: the materials of a tagging never hold two entries that are
\* equal ignoring letter case.
C17_NoCaseDuplicates ==
    \A n \in 1..Len(taggings) :
        \A i, j \in 1..Len(taggings[n].materials) :
            lower(taggings[n].materials[i]) = lower(taggings[n].materials[j])
                => i = j

\* The weight of each sustainability category, in hundredths.
C18_Weight ==
    [recycled |-> 20, organic |-> 15, renewable |-> 15, local |-> 10,
     fair_trade |-> 10, low_impact |-> 10]

\* The score with each category's weight added once per matched category.
C18_PerCategory(text) ==
    LET hit == {i \in 1..Len(sustainable_materials) :
                   \E k \in Range(sustainable_materials[i].keywords) : In(k, text)}
        pts == [i \in 1..Len(sustainable_materials) |->
                   IF i \in hit THEN C18_Weight[sustainable_materials[i].category]
                   ELSE 0]
        total == 30 + SumSeq(pts) + (IF C9_Handmade(text) THEN 10 ELSE 0)
    IN  IF total < 100 THEN total ELSE 100

\* C18 as claimed: the eco score is min(1.0, 0.3 + the weight of every
\* sustainability category with a keyword in the text, counted once per
\* category, + 0.1 if a handmade keyword is present).
C18_WeightOncePerCategory ==
    Tagged => taggings[1].eco_impact_score = C18_PerCategory(item_text(items[1]))

\* The position of a category in the craft_categories table.
C20_Index(category) ==
    CHOOSE i \in 1..Len(craft_categories) : craft_categories[i].category = category

C20_Count(i, text) ==
    Cardinality({k \in 1..Len(craft_categories[i].keywords) :
                    In(craft_categories[i].keywords[k], text)})

\* C20: the detected categories are exactly those with a keyword in the
\* lowercased title + description, each once; the confidence of each is
\* matches / number of keywords (never above 1.0; in units of 1/840); and
\* they are listed by descending confidence, equal confidences in the order
\* of the category table.
C20_CategoriesByConfidence ==
    Tagged =>
        LET text == item_text(items[1])
            cats == taggings[1].categories
            conf == taggings[1].confidence_scores.categories
        IN  /\ Range(cats) = { craft_categories[i].category :
                                 i \in {n \in 1..Len(craft_categories) :
                                           C20_Count(n, text) > 0} }
            /\ DOMAIN conf = Range(cats)
            /\ \A i, j \in 1..Len(cats) : cats[i] = cats[j] => i = j
            /\ \A c \in Range(cats) :
                   /\ conf[c] * Len(craft_categories[C20_Index(c)].keywords)
                          = 840 * C20_Count(C20_Index(c), text)
                   /\ conf[c] <= 840
            /\ \A i, j \in 1..Len(cats) :
                   i < j => \/ conf[cats[i]] > conf[cats[j]]
                            \/ /\ conf[cats[i]] = conf[cats[j]]
                               /\ C20_Index(cats[i]) < C20_Index(cats[j])

\* C20 witness: metalwork (1 keyword of 6) is listed before pottery and
\* woodwork (1 of 7 each), which keep the order of the table.
C20_Witness ==
    /\ Tagged
    /\ taggings[1].categories = <<"metalwork", "pottery", "woodwork">>
    /\ taggings[1].confidence_scores.categories["metalwork"] = 140
    /\ taggings[1].confidence_scores.categories["pottery"] = 120

(***************************************************************************)
(* Properties of concurrent calls (SpecConcurrent)                         *)
(***************************************************************************)

\* What the call of a thread returns when it runs alone on what it was given.
C14_Alone(thread) ==
    IF thread.fn = "tag" THEN {tag_item(thread.arg, hashseed)}
    ELSE {estimate_eco_impact(thread.arg, ties) : ties \in Ties}

\* C14: whatever the interleaving of concurrent calls of estimate_eco_impact
\* and tag_item, the static tables stay as they were built, every product and
\* item stays as it was given, and every call that has returned has returned
\* what it returns when run alone.
C14_Stateless ==
    /\ category_factors = CategoryFactorsTable
    /\ craft_categories = CraftCategoriesTable
    /\ sustainable_materials = SustainableMaterialsTable
    /\ price_categories = PriceCategoriesTable
    /\ \A t \in DOMAIN threads :
           /\ heap[threads[t].obj] = threads[t].arg
           /\ threads[t].pc = "done" => threads[t].result \in C14_Alone(threads[t])

\* C14 witness: two calls of tag_item on the same item, the second run to its
\* end while the first was between two of its steps.
C14_Witness ==
    /\ Len(threads) = NThreads
    /\ threads[1].fn = "tag"
    /\ threads[2].fn = "tag"
    /\ threads[1].obj = threads[2].obj
    /\ threads[1].pc = "eco"
    /\ threads[2].pc = "done"
    /\ "wood" \in Range(threads[2].result.materials)

(***************************************************************************)
(* Properties of tag_craft_from_dict (SpecApi)                             *)
(***************************************************************************)

BothAnswered == Len(api_results) = 2

C4_Unstamped(r) == [r EXCEPT !.enhanced_analysis.analysis_timestamp = 0]

Returned == price_result # <<>>

\* A call of PricePredictionService.predict_price that returned a prediction
\* for a non-negative price of the model.
C15_Predicted ==
    /\ Returned
    /\ price_call.op = "service_predict_price"
    /\ price_result[1] # None
    /\ price_call.outcome.num >= 0

\* C15 as claimed: the range is (round(p * 0.9, 2), round(p * 1.1, 2)) and,
\* for every non-negative predicted price p, min <= p <= max.
C15_RangeHoldsPrice ==
    C15_Predicted =>
        LET p == price_call.outcome.num
            range == price_result[1].price_range
        IN  /\ IsRounded(range.min, p * 9, 100)
            /\ IsRounded(range.max, p * 11, 100)
            /\ 10 * range.min <= p
            /\ p <= 10 * range.max

\* C15, amended: the range is (round(p * 0.9, 2), round(p * 1.1, 2)) and, for
\* every non-negative predicted price p, min <= round(p, 2) <= max, where
\* round(p, 2) is the predicted_price that predict_price returns.
C15_RangeHoldsRoundedPrice ==
    C15_Predicted =>
        LET p == price_call.outcome.num
            range == price_result[1].price_range
        IN  /\ IsRounded(range.min, p * 9, 100)
            /\ IsRounded(range.max, p * 11, 100)
            /\ IsRounded(price_result[1].predicted_price, p, 10)
            /\ range.min <= price_result[1].predicted_price
            /\ price_result[1].predicted_price <= range.max

\* C15 witness: the model predicts 0.013, the range is (0.01, 0.01) and the
\* returned price 0.01.
C15_Witness ==
    /\ C15_Predicted
    /\ price_call.outcome.num = 13
    /\ price_result[1].predicted_price = 1
    /\ price_result[1].price_range = [min |-> 1, max |-> 1]

\* A call of AdvancedPricingModel.predict_price that returned a result.
C16_Result ==
    /\ Returned
    /\ price_call.op = "predict_price"
    /\ price_result[1].raised = NotRaised

\* The models of self.models, and the sum and the spread of what they return.
C16_Loaded == SelectSeq(<<"xgboost", "random_forest">>, LAMBDA m : m \in pricing.models)
C16_Values == [i \in 1..Len(C16_Loaded) |-> price_call.outcomes[C16_Loaded[i]].num]
C16_Spread ==
    IF Len(C16_Values) = 2
    THEN IF C16_Values[1] >= C16_Values[2] THEN C16_Values[1] - C16_Values[2]
         ELSE C16_Values[2] - C16_Values[1]
    ELSE 0

\* 1 - spread / sum clamped to [0.5, 0.95], for sum > 0.
C16_Clamped(sum, spread) ==
    LET c == <<sum - spread, sum>>
    IN  IF Leq(c, <<5, 10>>) THEN <<5, 10>>
        ELSE IF Leq(<<95, 100>>, c) THEN <<95, 100>>
        ELSE c

\* C16: every result of AdvancedPricingModel.predict_price has a confidence
\* within [0.5, 0.95]; with estimators available the price is the mean of
\* their estimates and the confidence 1 minus their coefficient of variation
\* clamped to [0.5, 0.95].
C16_ConfidenceInInterval ==
    C16_Result =>
        /\ Leq(<<5, 10>>, price_result[1].confidence)
        /\ Leq(price_result[1].confidence, <<95, 100>>)
        /\ ("error" \notin DOMAIN price_result[1] /\ C16_Loaded # <<>>
                /\ SumSeq(C16_Values) > 0)
             => /\ price_result[1].predicted_price
                       = <<SumSeq(C16_Values), Len(C16_Values)>>
                /\ Leq(price_result[1].confidence,
                       C16_Clamped(SumSeq(C16_Values), C16_Spread))
                /\ Leq(C16_Clamped(SumSeq(C16_Values), C16_Spread),
                       price_result[1].confidence)

\* No regression estimator is available to the call: self.models is empty,
\* or a model of self.models raises.
C12_NoEstimator ==
    \/ pricing.models = {}
    \/ \E m \in pricing.models : raises(price_call.outcomes[m])

\* C12: without an available estimator, predict_price returns the rule-based
\* fallback price with a low confidence (at most 0.5) for every features map,
\* and get_price_suggestions returns at least the category-based suggestion
\* and no ml_prediction entry; no exception escapes.
C12_FallbackNeverRaises ==
    /\ (Returned /\ price_call.op = "predict_price" /\ C12_NoEstimator) =>
           /\ price_result[1].raised = NotRaised
           /\ price_result[1].predicted_price
                  = <<fallback_pricing(price_call.features).price, 1>>
           /\ Leq(price_result[1].confidence, <<5, 10>>)
    /\ (/\ Returned
        /\ price_call.op = "get_price_suggestions"
        /\ (~ pricing.service.is_loaded \/ raises(price_call.outcome))) =>
           /\ price_result[1].raised = NotRaised
           /\ \E i \in 1..Len(price_result[1].suggestions) :
                  price_result[1].suggestions[i].type = "category_based"
           /\ \A i \in 1..Len(price_result[1].suggestions) :
                  price_result[1].suggestions[i].type # "ml_prediction"

\* A sub-analysis of comprehensive_analysis fails: the features of the
\* pricing cannot be built, predict_price raises, or analyze_sustainability
\* raises.
C13_PricingFails ==
    \/ ~ is_str(get(price_call.product_data, "location", Str("")))
    \/ predict_price(pricing.models, pricing_features(price_call.product_data, 70),
                     price_call.outcomes[1]).raised # NotRaised

C13_SustainabilityFails ==
    analyze_sustainability(price_call.product_data,
                           price_call.overall_score).raised # NotRaised

\* C13: when one sub-analysis of comprehensive_analysis fails, the call does
\* not raise; it returns a result in which the failed section carries an
\* error marker and the other section is populated.
C13_PartialResult ==
    (/\ Returned
     /\ price_call.op = "comprehensive_analysis"
     /\ C13_PricingFails # C13_SustainabilityFails) =>
        /\ price_result[1].raised = NotRaised
        /\ C13_SustainabilityFails =>
               /\ "error" \in DOMAIN price_result[1].sustainability_analysis
               /\ "predicted_price" \in DOMAIN price_result[1].pricing_analysis
        /\ C13_PricingFails =>
               /\ "error" \in DOMAIN price_result[1].pricing_analysis
               /\ "overall_sustainability_score"
                      \in DOMAIN price_result[1].sustainability_analysis

(***************************************************************************)
(* Properties of series of estimates (SpecMonotone)                        *)
(***************************************************************************)

\* clamp(0.4 * percent_recycled_material + method_bonus - min(0.05 *
\* distance_km, 25) - min(8 * (weight_kg + packaging_kg), 15), 0, 95) with
\* method_bonus 35, 20 or 0, in 1e-3 points.
C21_Score(p) ==
    LET bonus == CASE p["production_method"] = "handmade" -> 35000
                   [] p["production_method"] = "small-batch" -> 20000
                   [] OTHER -> 0
        s == 400 * p["percent_recycled_material"] + bonus
             - Min(50 * p["distance_km_to_market"], 25000)
             - Min(8 * (p["weight_g"] + p["packaging_weight_g"]), 15000)
    IN  Max(0, Min(s, 95000))

\* The field the second product of the series has raised.
C21_Raised == CHOOSE x \in DOMAIN MonotoneFields : est_calls[1][x] < est_calls[2][x]

\* C21: the sustainability score of every estimate is the claimed formula,
\* rounded to one decimal; it does not decrease when
\* percent_recycled_material is raised and does not increase when the
\* distance, the weight or the packaging weight is raised.
C21_ScoreFormulaMonotone ==
    /\ \A i \in 1..Len(est_results) :
           IsRounded(est_results[i].sustainability_score, C21_Score(est_calls[i]), 100)
    /\ Len(est_results) = 2 =>
           IF C21_Raised = "percent_recycled_material"
           THEN est_results[1].sustainability_score <= est_results[2].sustainability_score
           ELSE est_results[1].sustainability_score >= est_results[2].sustainability_score

\* C21 witness: a handmade product of 250 g with 60 g of packaging and 35 %
\* recycled material scores 32.5 at 280 km and 21.5 at 501 km.
C21_Witness ==
    /\ Len(est_results) = 2
    /\ est_calls[1] = ScenarioA
    /\ est_calls[2]["distance_km_to_market"] = 501
    /\ est_results[1].sustainability_score = 325
    /\ est_results[2].sustainability_score = 215

(***************************************************************************)
(* Properties of the OTP routes served one at a time (SpecOtp)             *)
(***************************************************************************)

\* The keys of otp_storage for the phone of the requests.
PhoneKey == "+919876543210"
ResetKey == "reset_+919876543210"

\* The route that checks an OTP stored under the key, what it answers when
\* there is none, and the route that stores one.
OtpRoutes ==
    { [key |-> PhoneKey, check |-> "/verify-otp", send |-> "/send-otp",
       missing |-> "OTP not found or expired"],
      [key |-> ResetKey, check |-> "/reset-password", send |-> "/reset-password-otp",
       missing |-> "Password reset OTP not found or expired"] }

\* The request just served passed the validation of its route.
Validated(req) ==
    /\ req # None
    /\ req.json # None
    /\ "phone" \in DOMAIN req.json
    /\ req.path \in {"/verify-otp", "/reset-password"} => "otp" \in DOMAIN req.json
    /\ req.path = "/reset-password" => Len(req.json["new_password"]) >= 6
    /\ req.path = "/reset-password-otp" => req.json["user_type"] \in {"buyer", "seller"}

\* This step serves a request of the route.
Serves(path) == clock' = clock /\ request'.path = path

C22_Step ==
    \A r \in OtpRoutes :
        /\ (Serves(r.check) /\ http'.status = 200) => r.key \notin DOMAIN otp_storage'
        /\ (Serves(r.check) /\ Validated(request') /\ r.key \notin DOMAIN otp_storage)
               => /\ http'.status = 400
                  /\ http'.body.success = FALSE
                  /\ http'.body.error = r.missing
                  /\ r.key \notin DOMAIN otp_storage'
        /\ (r.key \notin DOMAIN otp_storage /\ r.key \in DOMAIN otp_storage')
               => Serves(r.send)

\* C22: a successful /verify-otp or /reset-password deletes the stored
\* entry; while there is no entry, every verification for the phone, with
\* any code, fails with the route's 'not found or expired' answer; and only
\* /send-otp or /reset-password-otp stores an entry again.
C22_SingleUse == [][C22_Step]_vars

\* C22 witness: /verify-otp has just succeeded with the code a reset OTP
\* also has; the phone's entry is gone and the reset entry is still stored.
C22_Witness ==
    /\ Validated(request)
    /\ request.path = "/verify-otp"
    /\ request.json["otp"] = "1234"
    /\ http.status = 200
    /\ http.body.message = "OTP verified successfully"
    /\ DOMAIN otp_storage = {ResetKey}
    /\ heap[otp_storage[ResetKey]].otp = "1234"

\* The dict stored under the key, before and after the step.
Entry(key) == heap[otp_storage[key]]
EntryAfter(key) == heap'[otp_storage'[key]]

TooMany ==
    { "Too many failed attempts. Please request a new OTP.",
      "Too many failed attempts. Please request a new password reset OTP." }

\* The step serves a validated request of the route that checks the OTP
\* stored under r.key.
Checks(r) == Serves(r.check) /\ Validated(request') /\ r.key \in DOMAIN otp_storage

\* What C23 says of a step that checks a stored OTP.
C23_Counted(r) ==
    /\ (Entry(r.key).attempts < 3 /\ request'.json["otp"] # Entry(r.key).otp)
           => /\ r.key \in DOMAIN otp_storage'
              /\ EntryAfter(r.key).attempts = Entry(r.key).attempts + 1
              /\ http'.body.attempts_remaining = 3 - EntryAfter(r.key).attempts
    /\ Entry(r.key).attempts >= 3
           => /\ http'.status = 400
              /\ http'.body.error \in TooMany
              /\ r.key \notin DOMAIN otp_storage'

C23_Within == \A k \in DOMAIN otp_storage : Entry(k).attempts \in 0..3

\* C23 as claimed: the attempts of a stored OTP stay within 0..3; every
\* wrong code adds one and reports attempts_remaining = 3 - attempts; after
\* three wrong codes the next request does not succeed, deletes the entry
\* and answers 'Too many failed attempts'.
C23_AttemptLimit ==
    [][C23_Within' /\ \A r \in OtpRoutes : Checks(r) => C23_Counted(r)]_vars

\* C23, amended: the same, of a stored OTP that has not expired when the
\* request is served.
C23_AttemptLimitUnexpired ==
    [][C23_Within' /\ \A r \in OtpRoutes :
           (Checks(r) /\ clock <= Entry(r.key).expires_at) => C23_Counted(r)]_vars

\* C23 witness: the correct code, sent after three wrong ones, is answered
\* 'Too many failed attempts' and the entry is deleted.
C23_Witness ==
    /\ Validated(request)
    /\ request.path = "/verify-otp"
    /\ request.json["otp"] = "1234"
    /\ http.status = 400
    /\ http.body.error = "Too many failed attempts. Please request a new OTP."
    /\ otp_storage = <<>>
    /\ clock = 0

\* The step serves a request of one of the four OTP routes.
ServesOtpRoute == \E r \in OtpRoutes : Serves(r.check) \/ Serves(r.send)

\* No verification succeeds on an entry whose expires_at is earlier than the
\* time of the request.
C24_NoLateSuccess ==
    \A r \in OtpRoutes :
        (Serves(r.check) /\ http'.status = 200)
            => /\ r.key \in DOMAIN otp_storage
               /\ clock <= Entry(r.key).expires_at

\* The request leaves no entry that has expired at the time it is served.
C24_NoneExpiredAfter ==
    \A k \in DOMAIN otp_storage' : clock <= EntryAfter(k).expires_at

\* C24 as claimed: verification never succeeds when the current time is
\* later than expires_at, and the next OTP request of any kind removes every
\* expired entry from otp_storage.
C24_ExpiredRemovedByAny ==
    [][C24_NoLateSuccess /\ (ServesOtpRoute => C24_NoneExpiredAfter)]_vars

\* C24, amended: the same, of the next OTP request of any kind that passes
\* the validation of its route.
C24_ExpiredRemovedByValidated ==
    [][C24_NoLateSuccess
       /\ ((ServesOtpRoute /\ Validated(request')) => C24_NoneExpiredAfter)]_vars

\* C24 witness: six minutes after the OTPs were issued, /verify-otp with the
\* code that was sent is answered 'OTP not found or expired', and neither
\* the phone's entry nor the reset entry is stored any more.
C24_Witness ==
    /\ clock > OtpMinutes
    /\ Validated(request)
    /\ request.path = "/verify-otp"
    /\ request.json["otp"] = "1234"
    /\ http.status = 400
    /\ http.body.error = "OTP not found or expired"
    /\ otp_storage = <<>>
    /\ heap = <<>>

\* The step serves a /send-otp or /reset-password-otp that ends with the
\* error response of a failed delivery.
C27_Failed(r) ==
    /\ Serves(r.send)
    /\ Validated(request')
    /\ http'.status = 500
    /\ http'.body.error \in {"Failed to send OTP", "Failed to send password reset OTP"}

\* C27: a /send-otp (or /reset-password-otp) that ends with the error
\* response of a failed delivery leaves otp_storage as it was, apart from
\* the removal of the expired entries: the code of the failed request is not
\* stored and an earlier code that is still valid is not overwritten.
C27_FailedSendStoresNothing ==
    [][\A r \in OtpRoutes :
           C27_Failed(r)
               => /\ DOMAIN otp_storage' = DOMAIN otp_storage \ expired_keys(otp_storage, heap, clock)
                  /\ \A k \in DOMAIN otp_storage' : EntryAfter(k) = Entry(k)]_vars

\* What C28 says of a step that serves a validated request for a new OTP:
\* the entry stored under the key afterwards is a new one, with attempts 0
\* and an expiry five minutes after the request, and its code is the code
\* generated for this request (the one the response gives as dev_otp).
C28_Replaced(r) ==
    /\ r.key \in DOMAIN otp_storage'
    /\ EntryAfter(r.key).attempts = 0
    /\ EntryAfter(r.key).expires_at = clock + OtpMinutes
    /\ "dev_otp" \in DOMAIN http'.body => EntryAfter(r.key).otp = http'.body.dev_otp
    /\ \A k \in DOMAIN otp_storage' \ {r.key} :
           k \in DOMAIN otp_storage /\ EntryAfter(k) = Entry(k)

\* C28: a new /send-otp (or /reset-password-otp) for a phone that has a
\* stored OTP replaces the entry: new code, expiry five minutes after the new
\* request, attempts 0, whatever the attempts of the entry it replaces; a
\* verification succeeds only with the code of the entry stored last; and a
\* wrong code counts against that entry alone.
C28_NewOtpReplaces ==
    [][\A r \in OtpRoutes :
           /\ (Serves(r.send) /\ Validated(request')) => C28_Replaced(r)
           /\ (Serves(r.check) /\ http'.status = 200)
                  => request'.json["otp"] = Entry(r.key).otp
           /\ (Checks(r) /\ r.key \in DOMAIN otp_storage')
                  => \A k \in DOMAIN otp_storage' \ {r.key} :
                         k \in DOMAIN otp_storage
                             => EntryAfter(k).attempts = Entry(k).attempts]_vars

\* C28 witness: at minute 5 a /send-otp has replaced the phone's entry, which
\* was still valid: the old dict has been freed, the new one has the code
\* 5678, no attempts and expires at minute 10, while the reset OTP issued at
\* the start keeps its two failed attempts and its expiry at minute 5.
C28_Witness ==
    /\ clock = OtpMinutes
    /\ Validated(request)
    /\ request.path = "/send-otp"
    /\ http.status = 200
    /\ "dev_otp" \in DOMAIN http.body
    /\ http.body.dev_otp = "5678"
    /\ DOMAIN otp_storage = {PhoneKey, ResetKey}
    /\ heap[1] = None
    /\ Entry(PhoneKey) = [otp |-> "5678", expires_at |-> 2 * OtpMinutes, attempts |-> 0]
    /\ Entry(ResetKey).attempts = 2
    /\ Entry(ResetKey).expires_at = OtpMinutes

(***************************************************************************)
(* Properties of concurrent /verify-otp requests (SpecVerifiers)           *)
(***************************************************************************)

\* Every request has been answered.
AllAnswered == \A t \in DOMAIN threads : threads[t].pc = "done"

\* C25: whatever the interleaving of the /verify-otp requests for one stored
\* OTP, at most three incorrect codes are ever compared with the stored code,
\* and once the requests are answered the attempts of the stored entry is
\* the number of incorrect codes that were compared.
C25_LimitUnderConcurrency ==
    /\ compared <= AttemptLimit
    /\ (AllAnswered /\ PhoneKey \in DOMAIN otp_storage)
           => Entry(PhoneKey).attempts = compared

\* The requests answered 'OTP verified successfully'.
C26_Succeeded ==
    {t \in DOMAIN threads : threads[t].pc = "done" /\ threads[t].response.status = 200}

\* C26: of the /verify-otp requests for one phone served at once, those with
\* the correct code included, at most one is answered with success.
C26_AtMostOneSuccess == Cardinality(C26_Succeeded) <= 1

\* C26 witness: two requests with the correct code have both compared it
\* with the stored one; the first to delete the entry succeeded, and the
\* del of the other raised KeyError, answered 500.
C26_Witness ==
    /\ AllAnswered
    /\ threads[1].data["otp"] = "1234"
    /\ threads[2].data["otp"] = "1234"
    /\ threads[1].response = internal_error(key_error(PhoneKey))
    /\ threads[2].response.status = 200
    /\ otp_storage = <<>>

(***************************************************************************)
(* Properties of LocalStorageService (SpecSearch, SpecOrders)              *)
(***************************************************************************)

Searched == local_result # None

\* The active products, of the category when one is given, whose name,
\* description or material contains the term whatever the case, the newest
\* first.
C29_Matching ==
    LET term == join(lower(local_call.search_term))
        hit(p) == /\ p["status"] = "active"
                  /\ local_call.category # "" => p["category"] = local_call.category
                  /\ \E x \in {"name", "description", "material"} :
                         x \in DOMAIN p /\ In(term, lower(p[x]))
    IN  Reverse(SelectSeq(files.products, hit))

\* C29: search_products returns the first min(limit, number of matching
\* products) of the matching products, whatever the number of stored
\* products.
C29_SearchReturnsMatches ==
    Searched =>
        local_result[1] =
            SubSeq(C29_Matching, 1, Min(local_call.limit, Len(C29_Matching)))

\* The orders of orders.json with the value under the key.
C30_Orders(key, who) == SelectSeq(files.orders, LAMBDA o : o[key] = who)

C30_Sum(orders, amount) == SumSeq([i \in 1..Len(orders) |-> orders[i][amount]])

C30_Ids(key) == {files.orders[i][key] : i \in 1..Len(files.orders)}

====
